---- MODULE Spec2Model ----
(***************************************************************************)
(* A model of the agent orchestration core of openclaw-mini: the turn loop *)
(* (agent/loop.py), the session log (session/store.py), the compactor      *)
(* (session/compaction.py), the per-session lock (queue/command_queue.py), *)
(* the router (agent/router.py) and the callers of the turn loop (the      *)
(* channel handlers and the heartbeat fire path).                          *)
(*                                                                         *)
(* Representation.  A Python str is a sequence of string pieces (its       *)
(* concatenation), so that f-strings can be built; None is written         *)
(* NoneVal.  A dict is a record with the dict's keys.  A parsed JSON       *)
(* object is a set of <<key, value>> pairs.                                *)
(***************************************************************************)
EXTENDS Integers, Sequences, FiniteSets, TLC

\* ------------------------------------------------------------------ bounds
MaxBudget == 2
MaxTurns == 3
MaxLLMCalls == 2
MaxWrites == 3
MaxLen == 3
LowThreshold == 10

\* ------------------------------------------------------- program constants
DefaultThreshold == 100000
DefaultMaxTurns == 20

NoneVal == <<"\\None">>
Sentinel == <<"(max tool turns reached)">>
EmptyStr == << >>

\* --------------------------------------------------------------- messages
UserMsg(text) == [role |-> "user", content |-> text]

SystemMsg(prompt) == [role |-> "system", content |-> prompt]

ToolCall(id, name, arguments) ==
    [id |-> id, function |-> [name |-> name, arguments |-> arguments]]

_serialize_tool_calls(tool_calls) ==
    [i \in 1..Len(tool_calls) |->
        [id |-> tool_calls[i].id,
         type |-> "function",
         function |-> [name |-> tool_calls[i].function.name,
                       arguments |-> tool_calls[i].function.arguments]]]

_serialize_assistant_message(message) ==
    IF message.tool_calls # << >>
    THEN [role |-> "assistant", content |-> message.content,
          tool_calls |-> _serialize_tool_calls(message.tool_calls)]
    ELSE [role |-> "assistant", content |-> message.content]

ToolResultMsg(tool_call, result) ==
    [role |-> "tool", tool_call_id |-> tool_call.id, content |-> result]

\* last.get("tool_calls") is truthy
GetToolCalls(m) == IF "tool_calls" \in DOMAIN m THEN m.tool_calls ELSE << >>

\* a faulty test that takes every assistant message for an unanswered request
IsOrphanCandidate_AnyAssistant(m) == m.role = "assistant"

IsOrphanCandidate(m) == m.role = "assistant" /\ GetToolCalls(m) # << >>

\* a faulty sanitiser that removes at most one message
_sanitize_loaded_messages_OnePop(messages) ==
    IF messages # << >> /\ IsOrphanCandidate(messages[Len(messages)])
    THEN SubSeq(messages, 1, Len(messages) - 1)
    ELSE messages

RECURSIVE _sanitize_loaded_messages(_)
_sanitize_loaded_messages(messages) ==
    IF messages = << >> THEN messages
    ELSE IF IsOrphanCandidate(messages[Len(messages)])
         THEN _sanitize_loaded_messages(SubSeq(messages, 1, Len(messages) - 1))
         ELSE messages

\* the pieces of the model that are one character long
SingleChars ==
    {"/", " ", ":", "_", "a", "c", "e", "g", "h", "i", "o", "q", "r", "s", "R"}

\* ------------------------------------------------------------ JSON length
\* len(json.dumps(s, ensure_ascii=False)) - 2 of each string piece of the model
EscLen(piece) ==
    CASE piece = "hi" -> 2
      [] piece = "x" -> 1
      [] piece = "sum" -> 3
      [] piece = "(empty summary)" -> 15
      [] piece = "[Conversation summary of " -> 25
      [] piece = " earlier messages]\n\n" -> 22
      [] piece = "echoed: " -> 8
      [] piece = "Error: Unknown tool '" -> 21
      [] piece = "'" -> 1
      [] piece = "Error executing " -> 16
      [] piece = ": " -> 2
      [] piece = "'text'" -> 6
      [] piece = "(no query provided)" -> 19
      [] piece = "list indices must be integers or slices, not str" -> 48
      [] piece = "c1" -> 2
      [] piece = "c2" -> 2
      [] piece \in {"c3", "c4", "c5"} -> 2
      [] piece = "[1]" -> 3
      [] piece = "echo" -> 4
      [] piece = "nope" -> 4
      [] piece = "{\"text\": \"x\"}" -> 17
      [] piece = "not json" -> 8
      [] piece = "user" -> 4
      [] piece = "assistant" -> 9
      [] piece = "tool" -> 4
      [] piece = "function" -> 8
      [] piece \in {"0", "1", "2", "3", "4", "5", "6", "7", "8", "9"} -> 1
      [] piece \in SingleChars -> 1

RECURSIVE SumEsc(_)
SumEsc(s) == IF s = << >> THEN 0 ELSE EscLen(Head(s)) + SumEsc(Tail(s))

\* a str value (or None) encoded by json.dumps
JsonStr(s) == IF s = NoneVal THEN 4 ELSE 2 + SumEsc(s)

\* "<key>": <value>
JsonKV(keylen, vallen) == keylen + 4 + vallen

RECURSIVE SumSeq(_)
SumSeq(s) == IF s = << >> THEN 0 ELSE Head(s) + SumSeq(Tail(s))

\* {a, b, ...} and [a, b, ...] of members with the given encoded lengths
JsonJoin(lens) == 2 + SumSeq(lens) + (IF Len(lens) > 0 THEN 2 * (Len(lens) - 1) ELSE 0)

JsonToolCall(tc) ==
    JsonJoin(<< JsonKV(2, JsonStr(<<tc.id>>)),
                JsonKV(4, JsonStr(<<tc.type>>)),
                JsonKV(8, JsonJoin(<< JsonKV(4, JsonStr(<<tc.function.name>>)),
                                      JsonKV(9, JsonStr(<<tc.function.arguments>>)) >>)) >>)

JsonMsg(m) ==
    IF m.role = "tool"
    THEN JsonJoin(<< JsonKV(4, JsonStr(<<m.role>>)),
                     JsonKV(12, JsonStr(<<m.tool_call_id>>)),
                     JsonKV(7, JsonStr(m.content)) >>)
    ELSE IF "tool_calls" \in DOMAIN m
    THEN JsonJoin(<< JsonKV(4, JsonStr(<<m.role>>)),
                     JsonKV(7, JsonStr(m.content)),
                     JsonKV(10, JsonJoin([i \in 1..Len(m.tool_calls) |->
                                             JsonToolCall(m.tool_calls[i])])) >>)
    ELSE JsonJoin(<< JsonKV(4, JsonStr(<<m.role>>)),
                     JsonKV(7, JsonStr(m.content)) >>)

estimate_tokens(messages) ==
    JsonJoin([i \in 1..Len(messages) |-> JsonMsg(messages[i])]) \div 4

\* ------------------------------------------------------------- compaction
\* a faulty split whose backward search goes down to index 0
_split_messages_ToZero(messages) ==
    LET n == Len(messages)
        mid == n \div 2
        fwd == {i \in mid..(n - 1) : messages[i + 1].role = "user"}
        bwd == {i \in 0..mid : i < n /\ messages[i + 1].role = "user"}
    IN  IF fwd # {} THEN CHOOSE i \in fwd : \A j \in fwd : i <= j
        ELSE IF bwd # {} THEN CHOOSE i \in bwd : \A j \in bwd : i >= j
        ELSE mid

\* The number of messages in the old half (Python's split index).
_split_messages(messages) ==
    LET n == Len(messages)
        mid == n \div 2
        fwd == {i \in mid..(n - 1) : messages[i + 1].role = "user"}
        bwd == {i \in 1..mid : messages[i + 1].role = "user"}
    IN  IF fwd # {} THEN CHOOSE i \in fwd : \A j \in fwd : i <= j
        ELSE IF bwd # {} THEN CHOOSE i \in bwd : \A j \in bwd : i >= j
        ELSE mid

Digit(d) ==
    CASE d = 0 -> "0" [] d = 1 -> "1" [] d = 2 -> "2" [] d = 3 -> "3" [] d = 4 -> "4"
      [] d = 5 -> "5" [] d = 6 -> "6" [] d = 7 -> "7" [] d = 8 -> "8" [] d = 9 -> "9"

\* str(n) for 0 <= n < 100
ToStr(n) == IF n < 10 THEN <<Digit(n)>> ELSE <<Digit(n \div 10), Digit(n % 10)>>

Falsy(s) == s = NoneVal \/ s = EmptyStr

\* compact() asks the LLM only above the threshold and with a non-empty old half
CompactCallsLLM(messages, threshold) ==
    estimate_tokens(messages) >= threshold /\ _split_messages(messages) > 0

\* a faulty compact whose summary message counts every message of the history
compact_CountsAll(messages, threshold, summary_content) ==
    IF estimate_tokens(messages) < threshold THEN messages
    ELSE LET split == _split_messages(messages)
             summary == IF Falsy(summary_content) THEN <<"(empty summary)">>
                        ELSE summary_content
             summary_msg ==
                 [role |-> "user",
                  content |-> <<"[Conversation summary of ">> \o ToStr(Len(messages))
                              \o <<" earlier messages]\n\n">> \o summary]
         IN  IF split = 0 THEN messages
             ELSE <<summary_msg>> \o SubSeq(messages, split + 1, Len(messages))

\* what compact() returns given the content of the summary response
compact(messages, threshold, summary_content) ==
    IF estimate_tokens(messages) < threshold THEN messages
    ELSE LET split == _split_messages(messages)
             summary == IF Falsy(summary_content) THEN <<"(empty summary)">>
                        ELSE summary_content
             summary_msg ==
                 [role |-> "user",
                  content |-> <<"[Conversation summary of ">> \o ToStr(split)
                              \o <<" earlier messages]\n\n">> \o summary]
         IN  IF split = 0 THEN messages
             ELSE <<summary_msg>> \o SubSeq(messages, split + 1, Len(messages))

\* ---------------------------------------------------------- tool registry
RegisteredTools == {"echo"}

\* the arguments field of a tool call when it is None
NoArguments == "\\None"

\* a parsed JSON object and a parsed JSON array
JsonObject(members) == [type |-> "object", members |-> members]
JsonArray(elements) == [type |-> "array", elements |-> elements]

\* json.loads(arguments): the value, or JSONDecodeError for a str that is no JSON
\* text, or TypeError for None
JsonLoads(arguments) ==
    IF arguments = NoArguments THEN [raised |-> "TypeError"]
    ELSE IF arguments = "{\"text\": \"x\"}"
         THEN [raised |-> "no", value |-> JsonObject({<<"text", "x">>})]
    ELSE IF arguments = "[1]" THEN [raised |-> "no", value |-> JsonArray(<<1>>)]
    ELSE [raised |-> "JSONDecodeError"]

\* try: tool_input = json.loads(arguments); except json.JSONDecodeError: tool_input = {}
ParseToolInput(arguments) ==
    IF JsonLoads(arguments).raised = "JSONDecodeError" THEN JsonObject({})
    ELSE JsonLoads(arguments).value

\* the echo handler of the tests: f"echoed: {inp['text']}"; KeyError without the key,
\* TypeError when inp is a list
EchoHandler(tool_input) ==
    IF tool_input.type # "object"
    THEN [raised |-> TRUE,
          value |-> <<"list indices must be integers or slices, not str">>]
    ELSE IF \E kv \in tool_input.members : kv[1] = "text"
    THEN [raised |-> FALSE,
          value |-> <<"echoed: ", (CHOOSE kv \in tool_input.members : kv[1] = "text")[2]>>]
    ELSE [raised |-> TRUE, value |-> <<"'text'">>]

\* a faulty registry that lets the text of the handler's exception through as the result
execute_Unguarded(name, tool_input) ==
    IF name \notin RegisteredTools
    THEN <<"Error: Unknown tool '", name, "'">>
    ELSE EchoHandler(tool_input).value

execute(name, tool_input) ==
    IF name \notin RegisteredTools
    THEN <<"Error: Unknown tool '", name, "'">>
    ELSE IF EchoHandler(tool_input).raised
         THEN <<"Error executing ", name, ": ">> \o EchoHandler(tool_input).value
         ELSE EchoHandler(tool_input).value

\* ----------------------------------------------------------- session store
UnsafePieces == {":", "/", " "}

sanitize_key(key) ==
    [i \in 1..Len(key) |-> IF key[i] \in UnsafePieces THEN "_" ELSE key[i]]

_path(session_key) == sanitize_key(session_key) \o <<".jsonl">>

\* The content of a file is the sequence of its lines.  A line is its text and
\* whether the text is followed by "\n" (only the last line of a file can lack it).
\* The text is a sequence of chunks: json.dumps(message, ensure_ascii=False) in full,
\* or a non-empty proper prefix of it (what a write cut short leaves behind).
Dumps(message) == [json |-> message, whole |-> TRUE]
CutShort(message) == [json |-> message, whole |-> FALSE]
Line(text, nl) == [text |-> text, nl |-> nl]

\* json.loads(stripped) succeeds exactly on one whole JSON text: a cut text has
\* unbalanced braces, and two texts in one line are "extra data"
Loadable(line) == Len(line.text) = 1 /\ line.text[1].whole

\* the loop of load() over the lines: blank and undecodable lines are skipped
ReadLines(content) ==
    LET kept == SelectSeq(content, Loadable)
    IN  [i \in 1..Len(kept) |-> kept[i].text[1].json]

\* open(path, "a") and f.write(text) with or without the final "\n": the text goes
\* right after the last byte of the file
WriteAtEnd(content, text, nl) ==
    IF content # << >> /\ ~content[Len(content)].nl
    THEN [content EXCEPT ![Len(content)] = Line(@.text \o text, nl)]
    ELSE IF text = << >> /\ ~nl THEN content
    ELSE Append(content, Line(text, nl))

ContentOf(files, session_key) ==
    IF _path(session_key) \in DOMAIN files THEN files[_path(session_key)] ELSE << >>

WithContent(files, session_key, content) ==
    [p \in DOMAIN files \cup {_path(session_key)} |->
        IF p = _path(session_key) THEN content ELSE files[p]]

load(files, session_key) == ReadLines(ContentOf(files, session_key))

\* a faulty append that truncates the file before it writes
append_Truncating(files, session_key, message) ==
    WithContent(files, session_key, <<Line(<<Dumps(message)>>, TRUE)>>)

\* the files after append(session_key, message)
append(files, session_key, message) ==
    WithContent(files, session_key,
                WriteAtEnd(ContentOf(files, session_key), <<Dumps(message)>>, TRUE))

\* a faulty save that opens the file for appending
save_Appending(files, session_key, messages) ==
    WithContent(files, session_key,
                ContentOf(files, session_key)
                    \o [i \in 1..Len(messages) |-> Line(<<Dumps(messages[i])>>, TRUE)])

\* the files after save(session_key, messages)
save(files, session_key, messages) ==
    WithContent(files, session_key,
                [i \in 1..Len(messages) |-> Line(<<Dumps(messages[i])>>, TRUE)])

\* ----------------------------------------------------------------- router
\* str.strip(), str.lower() and str.startswith() on strings written character by character
RECURSIVE LStrip(_)
LStrip(s) == IF s # << >> /\ Head(s) = " " THEN LStrip(Tail(s)) ELSE s

RECURSIVE RStrip(_)
RStrip(s) ==
    IF s # << >> /\ s[Len(s)] = " " THEN RStrip(SubSeq(s, 1, Len(s) - 1)) ELSE s

Strip(s) == RStrip(LStrip(s))

LowerChar(c) == IF c = "R" THEN "r" ELSE c

Lower(s) == [i \in 1..Len(s) |-> LowerChar(s[i])]

StartsWith(s, prefix) ==
    Len(prefix) <= Len(s) /\ SubSeq(s, 1, Len(prefix)) = prefix

NoPrefix == <<"\\None">>

\* the agents of main.py and channels/repl.py
Jarvis ==
    [name |-> "Jarvis", prefix |-> NoPrefix, session_prefix |-> <<"agent", ":", "main">>]

Scout ==
    [name |-> "Scout", prefix |-> <<"/", "r", "e", "s", "e", "a", "r", "c", "h">>,
     session_prefix |-> <<"agent", ":", "research">>]

DefaultAgent == Jarvis
Agents == <<Scout>>

\* d[key] = value on an insertion-ordered dict written as a sequence of entries
DictSet(d, key, value) ==
    IF \E i \in 1..Len(d) : d[i].key = key
    THEN [i \in 1..Len(d) |-> IF d[i].key = key THEN [key |-> key, value |-> value] ELSE d[i]]
    ELSE Append(d, [key |-> key, value |-> value])

\* AgentRouter.__init__: the prefix map of the first n agents
RECURSIVE PrefixMapOf(_, _)
PrefixMapOf(agents, n) ==
    IF n = 0 THEN << >>
    ELSE IF agents[n].prefix # NoPrefix /\ agents[n].prefix # << >>
         THEN DictSet(PrefixMapOf(agents, n - 1), Lower(agents[n].prefix), agents[n])
         ELSE PrefixMapOf(agents, n - 1)

\* AgentRouter(default_agent, agents): the fields __init__ sets
AgentRouter(default_agent, agents) ==
    [_default |-> default_agent, _prefix_map |-> PrefixMapOf(agents, Len(agents))]

\* a faulty resolve that strips the text it hands to the default agent
AgentRouter_resolve_StripsDefault(self, user_text) ==
    LET text_lower == Lower(Strip(user_text))
        hits == {i \in 1..Len(self._prefix_map) :
                    StartsWith(text_lower, self._prefix_map[i].key)}
    IN  IF hits # {}
        THEN LET first == CHOOSE i \in hits : \A j \in hits : i <= j
                 stripped == Strip(user_text)
                 remainder == Strip(SubSeq(stripped, Len(self._prefix_map[first].key) + 1,
                                           Len(stripped)))
             IN  [agent |-> self._prefix_map[first].value,
                  text |-> IF remainder = << >> THEN <<"(no query provided)">>
                           ELSE remainder]
        ELSE [agent |-> self._default, text |-> Strip(user_text)]

\* AgentRouter.resolve: the loop over self._prefix_map.items() returns at the first
\* prefix the lowercased stripped text starts with
AgentRouter_resolve(self, user_text) ==
    LET text_lower == Lower(Strip(user_text))
        hits == {i \in 1..Len(self._prefix_map) :
                    StartsWith(text_lower, self._prefix_map[i].key)}
    IN  IF hits # {}
        THEN LET first == CHOOSE i \in hits : \A j \in hits : i <= j
                 stripped == Strip(user_text)
                 remainder == Strip(SubSeq(stripped, Len(self._prefix_map[first].key) + 1,
                                           Len(stripped)))
             IN  [agent |-> self._prefix_map[first].value,
                  text |-> IF remainder = << >> THEN <<"(no query provided)">>
                           ELSE remainder]
        ELSE [agent |-> self._default, text |-> user_text]

\* the router of main.py
MainRouter == AgentRouter(DefaultAgent, Agents)

_prefix_map == MainRouter._prefix_map

resolve(user_text) == AgentRouter_resolve(MainRouter, user_text)

\* a faulty key that leaves the channel out
SessionKeyOf_NoChannel(agent, channel, user_id) ==
    agent.session_prefix \o <<":">> \o user_id

\* f"{agent.session_prefix}:{channel}:{user_id}"
SessionKeyOf(agent, channel, user_id) ==
    agent.session_prefix \o <<":", channel, ":">> \o user_id

\* ------------------------------------------------------------------ state
VARIABLES
    queue,      \* the CommandQueue: _locks (key -> holder) and _meta_lock (holder)
    files,      \* the sessions directory: file path -> the lines of the file
    th,         \* per thread: position and the locals of run_agent_turn
    gh,         \* per thread: history of the running turn (observation only)
    orphaned,   \* paths whose log a crash left ending in an unanswered tool-call message
    abnormal,   \* some turn so far did not return normally (raised, or the process died)
    turnsLeft,  \* turns that may still be started
    llmLeft,    \* LLM responses that may still be received
    obs,        \* what was observed of the queue and the store (observation only)
    sched,      \* the HeartbeatScheduler: its fields, its loop threads and the caller of add/start/stop
    perm        \* the PermissionManager: the approvals file and the calls of the approval callback

vars == <<queue, files, th, gh, orphaned, abnormal, turnsLeft, llmLeft, obs, sched, perm>>

\* t1 calls run_agent_turn directly; tg1 and tg2 run channel handlers; hb is the
\* scheduler thread of the heartbeats; http1 and http2 serve requests of the HTTP API
DirectThreads == {"t1"}
ChannelThreads == {"tg1", "tg2"}
HeartbeatThreads == {"hb"}
HttpThreads == {"http1", "http2"}
Threads == DirectThreads \cup ChannelThreads \cup HeartbeatThreads \cup HttpThreads

NoThread == "-"
NewQueue == [_locks |-> << >>, _meta_lock |-> NoThread]

\* What is observed.  requests: the threads whose session_lock.acquire() call took the lock or blocked and
\* that have not released yet, in the order of these events; raised_on: the keys whose locked body raised
\* op: the last operation made on the store by itself; before and was: what load
\* returned and what the file held before it; wrote: the messages it was to write
\* call: the last call of a function made by itself, its arguments and what it returned
NoCall == [fn |-> "none"]

NoObs ==
    [requests |-> << >>, raised_on |-> {},
     op |-> "none", before |-> << >>, was |-> << >>, wrote |-> << >>,
     call |-> NoCall]

\* ----------------------------------------------------------------- inputs
SessionKeys == {<<"test">>}
UserTexts == {<<"h", "i">>}
SystemPrompt == <<"s">>
Thresholds == {LowThreshold, DefaultThreshold}
FinishReasons == {"stop", "tool_calls", "tool_use"}
Contents == {NoneVal, <<"hi">>}

\* what the channel handlers and the heartbeat receive
ChannelTexts == {<<"h", "i">>, <<"/", "r", "e", "s", "e", "a", "r", "c", "h", " ", "q">>}
UserIds == {<<"7", ":", "default">>}
Heartbeats == {[name |-> "hb1", prompt |-> <<"g", "o">>, agent |-> "main"]}
SummaryContents == {NoneVal, <<"sum">>}

EchoCall == ToolCall("c1", "echo", "{\"text\": \"x\"}")
UnknownCall == ToolCall("c2", "nope", "not json")

\* the tool_calls lists an LLM response may carry: none, one call of a registered
\* tool, or two calls whose first names no registered tool and has unparsable arguments
ToolCallLists == {<< >>, <<EchoCall>>, <<UnknownCall, EchoCall>>}

\* response.choices[0]: the message and the finish_reason; in the responses of the
\* model a message with tool calls has no text
Responses ==
    {c \in [message : [content : Contents, tool_calls : ToolCallLists],
            finish_reason : FinishReasons] :
        c.message.tool_calls # << >> => c.message.content = NoneVal}

NoMessage == [content |-> NoneVal, tool_calls |-> << >>]
NoCur == [tool_name |-> "", tool_input |-> JsonObject({}), result |-> << >>]

IdleLocal ==
    [pc |-> "idle", mode |-> "none", channel |-> "", user_id |-> << >>,
     raw_text |-> << >>, lock_key |-> << >>,
     session_key |-> << >>, user_text |-> << >>,
     max_turns |-> 0, on_tool_use |-> FALSE, compaction_threshold |-> 0,
     messages |-> << >>, api_messages |-> << >>, turn |-> 0,
     assistant_message |-> NoMessage, tool_result_msgs |-> << >>, cur |-> NoCur,
     persisted |-> 0, result |-> << >>, raised |-> "none"]

IdleGhost ==
    [pre |-> << >>, overwrote |-> FALSE, saved |-> << >>, llm_calls |-> 0,
     summary_calls |-> 0, events |-> << >>]

\* ------------------------------------------------- HeartbeatScheduler
MaxThreads == 2
LoopThreads == 1..MaxThreads

\* a Thread object that start has not created yet
NewLoopThread ==
    [pc |-> "unborn", heartbeat |-> "", outcome |-> "none", results |-> 0,
     caught |-> 0, ended_by |-> "none"]

\* HeartbeatScheduler.__init__: no jobs, no heartbeats, no thread, the event clear
NewScheduler ==
    [jobs |-> << >>, _heartbeats |-> {}, _thread |-> 0, _stop_event |-> FALSE,
     threads |-> [k \in LoopThreads |-> NewLoopThread],
     caller |-> "idle", op |-> "none", expr |-> << >>, returned |-> "none", fired |-> 0]

\* ------------------------------------------------- PermissionManager
\* no approvals file yet, the callback never called
NewPermissions ==
    [file |-> [exists |-> FALSE, allowed |-> << >>, denied |-> << >>],
     asked |-> << >>, decided |-> {}, op |-> "none", command |-> << >>,
     returned |-> "none"]

Init ==
    /\ queue = NewQueue
    /\ obs = NoObs
    /\ files = << >>
    /\ th = [t \in Threads |-> IdleLocal]
    /\ gh = [t \in Threads |-> IdleGhost]
    /\ orphaned = {}
    /\ abnormal = FALSE
    /\ turnsLeft = MaxTurns
    /\ llmLeft = MaxLLMCalls
    /\ sched = NewScheduler
    /\ perm = NewPermissions

\* ------------------------------------------------------- run_agent_turn
\* a faulty loop head that allows one iteration too many
LoopHead_OneMore(l) ==
    IF l.turn <= l.max_turns THEN [l EXCEPT !.pc = "llm"]
    ELSE [l EXCEPT !.pc = "done", !.result = Sentinel]

\* `for _ in range(max_turns)`: another iteration, or the fall-through return
LoopHead(l) ==
    IF l.turn < l.max_turns THEN [l EXCEPT !.pc = "llm"]
    ELSE [l EXCEPT !.pc = "done", !.result = Sentinel]

\* a faulty test that ignores finish_reason
has_tool_calls_AnyReason(choice) == choice.message.tool_calls # << >>

has_tool_calls(choice) ==
    choice.finish_reason \in {"tool_calls", "tool_use"} /\ choice.message.tool_calls # << >>

\* a faulty loop over the tool calls that visits them last to first
ToolAt_Reversed(tool_calls, done) == tool_calls[Len(tool_calls) - done]

\* the tool call the `for tool_call in assistant_message.tool_calls` loop visits
\* after `done` calls were handled
ToolAt(tool_calls, done) == tool_calls[done + 1]

\* a faulty loop that persists the step as soon as its first tool has finished
NextAfterTool_Early(done, total) == "persist"

\* where the loop goes once `done` of `total` tool calls were handled
NextAfterTool(done, total) == IF done < total THEN "tool" ELSE "persist"

\* a faulty loop that never calls on_tool_use
PcAfterExecute_Silent(on_tool_use) == "collect"

\* where the loop goes after tool_registry.execute returned
PcAfterExecute(on_tool_use) == IF on_tool_use THEN "notify" ELSE "collect"

Event(op, index, id) == [op |-> op, index |-> index, id |-> id]

\* a direct call run_agent_turn(..., session_key, user_text, max_turns, on_tool_use,
\* compaction_threshold), as the tests make it
StartTurn(t, key, text, n, cb, thr) ==
    /\ th[t].pc = "idle"
    /\ turnsLeft > 0
    /\ turnsLeft' = turnsLeft - 1
    /\ th' = [th EXCEPT ![t] =
                [IdleLocal EXCEPT !.pc = "load", !.mode = "direct", !.session_key = key,
                                  !.user_text = text, !.max_turns = n,
                                  !.on_tool_use = cb, !.compaction_threshold = thr]]
    /\ UNCHANGED <<sched, perm, obs, queue, files, gh, orphaned, abnormal, llmLeft>>

\* messages = _sanitize_loaded_messages(session_store.load(session_key)), and the
\* test estimate_tokens(messages) >= compaction_threshold
Load(t) ==
    LET l == th[t]
        messages == _sanitize_loaded_messages(load(files, l.session_key))
    IN  /\ l.pc = "load"
        /\ th' = [th EXCEPT ![t] =
                    [l EXCEPT !.messages = messages,
                              !.pc = IF estimate_tokens(messages) >= l.compaction_threshold
                                     THEN "compact" ELSE "user"]]
        /\ gh' = [gh EXCEPT ![t].pre = load(files, l.session_key)]
        /\ UNCHANGED <<sched, perm, obs, queue, files, orphaned, abnormal, turnsLeft, llmLeft>>

\* messages = compact(...); session_store.save(session_key, messages)
CompactSave(t, summary_content) ==
    LET l == th[t]
        asks == CompactCallsLLM(l.messages, l.compaction_threshold)
        messages == compact(l.messages, l.compaction_threshold, summary_content)
    IN  /\ l.pc = "compact"
        /\ IF asks THEN llmLeft > 0 ELSE summary_content = NoneVal
        /\ llmLeft' = IF asks THEN llmLeft - 1 ELSE llmLeft
        /\ files' = save(files, l.session_key, messages)
        /\ th' = [th EXCEPT ![t] = [l EXCEPT !.messages = messages, !.pc = "user"]]
        /\ gh' = [gh EXCEPT ![t].overwrote = TRUE, ![t].saved = messages,
                            ![t].llm_calls = @ + (IF asks THEN 1 ELSE 0),
                            ![t].summary_calls = @ + (IF asks THEN 1 ELSE 0)]
        /\ UNCHANGED <<sched, perm, obs, queue, orphaned, abnormal, turnsLeft>>

\* a faulty turn that has appended the user message to the log before compact() raises
CompactRaise_AfterAppend(t) ==
    LET l == th[t]
    IN  /\ l.pc = "compact"
        /\ CompactCallsLLM(l.messages, l.compaction_threshold)
        /\ files' = append(files, l.session_key, UserMsg(l.user_text))
        /\ th' = [th EXCEPT ![t] = [l EXCEPT !.pc = "exc", !.raised = "compact"]]
        /\ gh' = [gh EXCEPT ![t].llm_calls = @ + 1, ![t].summary_calls = @ + 1]
        /\ UNCHANGED <<sched, perm, obs, queue, orphaned, abnormal, turnsLeft, llmLeft>>

\* the summarisation call of compact() raises
CompactRaise(t) ==
    LET l == th[t]
    IN  /\ l.pc = "compact"
        /\ CompactCallsLLM(l.messages, l.compaction_threshold)
        /\ th' = [th EXCEPT ![t] = [l EXCEPT !.pc = "exc", !.raised = "compact"]]
        /\ gh' = [gh EXCEPT ![t].llm_calls = @ + 1, ![t].summary_calls = @ + 1]
        /\ UNCHANGED <<sched, perm, obs, queue, files, orphaned, abnormal, turnsLeft, llmLeft>>

\* messages.append(user_msg); session_store.append(session_key, user_msg);
\* api_messages = [system] + messages
AppendUser(t) ==
    LET l == th[t]
        user_msg == UserMsg(l.user_text)
        messages == Append(l.messages, user_msg)
    IN  /\ l.pc = "user"
        /\ files' = append(files, l.session_key, user_msg)
        /\ th' = [th EXCEPT ![t] =
                    LoopHead([l EXCEPT !.messages = messages,
                                       !.api_messages = <<SystemMsg(SystemPrompt)>> \o messages])]
        /\ UNCHANGED <<sched, perm, obs, queue, gh, orphaned, abnormal, turnsLeft, llmLeft>>

\* response = client.chat.completions.create(...), then either the final branch
\* (persist and return) or the start of a tool step
CallLLM(t, choice) ==
    LET l == th[t]
        assistant_message == choice.message
        serialized_msg == _serialize_assistant_message(assistant_message)
    IN  /\ l.pc = "llm"
        /\ llmLeft > 0
        /\ llmLeft' = llmLeft - 1
        /\ IF ~has_tool_calls(choice)
           THEN /\ files' = append(files, l.session_key, serialized_msg)
                /\ th' = [th EXCEPT ![t] =
                            [l EXCEPT !.messages = Append(l.messages, serialized_msg),
                                      !.pc = "done",
                                      !.result = IF Falsy(assistant_message.content)
                                                 THEN EmptyStr
                                                 ELSE assistant_message.content]]
           ELSE /\ files' = files
                /\ th' = [th EXCEPT ![t] =
                            [l EXCEPT !.assistant_message = assistant_message,
                                      !.tool_result_msgs = << >>,
                                      !.persisted = 0,
                                      !.pc = "tool"]]
        /\ gh' = [gh EXCEPT ![t].llm_calls = @ + 1, ![t].events = << >>]
        /\ UNCHANGED <<sched, perm, obs, queue, orphaned, abnormal, turnsLeft>>

\* client.chat.completions.create raises (transport failure)
LLMRaise(t) ==
    LET l == th[t]
    IN  /\ l.pc = "llm"
        /\ th' = [th EXCEPT ![t] = [l EXCEPT !.pc = "exc", !.raised = "llm"]]
        /\ gh' = [gh EXCEPT ![t].llm_calls = @ + 1]
        /\ UNCHANGED <<sched, perm, obs, queue, files, orphaned, abnormal, turnsLeft, llmLeft>>

\* tool_result_msgs.append({...}) and the next round of the for loop over tool_calls
Collect(l) ==
    LET done == Len(l.tool_result_msgs)
        tool_call == ToolAt(l.assistant_message.tool_calls, done)
    IN  [l EXCEPT !.tool_result_msgs = Append(@, ToolResultMsg(tool_call, l.cur.result)),
                  !.cur = NoCur,
                  !.pc = NextAfterTool(done + 1, Len(l.assistant_message.tool_calls))]

\* tool_input = json.loads(arguments), {} on JSONDecodeError; result =
\* tool_registry.execute(tool_name, tool_input)
ExecuteTool(t) ==
    LET l == th[t]
        done == Len(l.tool_result_msgs)
        tool_call == ToolAt(l.assistant_message.tool_calls, done)
        tool_name == tool_call.function.name
        tool_input == ParseToolInput(tool_call.function.arguments)
        result == execute(tool_name, tool_input)
        ran == [l EXCEPT !.cur = [tool_name |-> tool_name, tool_input |-> tool_input,
                                  result |-> result]]
    IN  /\ l.pc = "tool"
        /\ JsonLoads(tool_call.function.arguments).raised # "TypeError"
        /\ th' = [th EXCEPT ![t] =
                    IF PcAfterExecute(l.on_tool_use) = "notify"
                    THEN [ran EXCEPT !.pc = "notify"]
                    ELSE Collect(ran)]
        /\ gh' = [gh EXCEPT ![t].events = Append(@, Event("execute", done + 1, tool_call.id))]
        /\ UNCHANGED <<sched, perm, obs, queue, files, orphaned, abnormal, turnsLeft, llmLeft>>

\* json.loads(tool_call.function.arguments) raises TypeError, which the try statement
\* does not catch
ParseRaise(t) ==
    LET l == th[t]
        tool_call == ToolAt(l.assistant_message.tool_calls, Len(l.tool_result_msgs))
    IN  /\ l.pc = "tool"
        /\ JsonLoads(tool_call.function.arguments).raised = "TypeError"
        /\ th' = [th EXCEPT ![t] = [l EXCEPT !.pc = "exc", !.raised = "arguments"]]
        /\ UNCHANGED <<sched, perm, obs, queue, files, gh, orphaned, abnormal, turnsLeft, llmLeft>>

\* on_tool_use(tool_name, tool_input, result): returns, or raises out of the turn
OnToolUse(t, returns) ==
    LET l == th[t]
        done == Len(l.tool_result_msgs)
        tool_call == ToolAt(l.assistant_message.tool_calls, done)
    IN  /\ l.pc = "notify"
        /\ th' = [th EXCEPT ![t] =
                    IF returns THEN Collect(l)
                    ELSE [l EXCEPT !.pc = "exc", !.raised = "callback"]]
        /\ gh' = [gh EXCEPT ![t].events = Append(@, Event("on_tool_use", done + 1, tool_call.id))]
        /\ UNCHANGED <<sched, perm, obs, queue, files, orphaned, abnormal, turnsLeft, llmLeft>>

\* a faulty step that goes on to the next iteration without storing the tool results
AfterPersist_SkipsResults(l) == LoopHead([l EXCEPT !.turn = @ + 1])

\* after an append of the step: the next tool message, or the next loop iteration
AfterPersist(l) ==
    IF l.persisted < Len(l.tool_result_msgs) THEN [l EXCEPT !.pc = "persist_tool"]
    ELSE LoopHead([l EXCEPT !.turn = @ + 1])

\* messages.append(serialized_msg); session_store.append(...); api_messages.append(...)
PersistAssistant(t) ==
    LET l == th[t]
        serialized_msg == _serialize_assistant_message(l.assistant_message)
    IN  /\ l.pc = "persist"
        /\ files' = append(files, l.session_key, serialized_msg)
        /\ th' = [th EXCEPT ![t] =
                    AfterPersist([l EXCEPT !.messages = Append(@, serialized_msg),
                                           !.api_messages = Append(@, serialized_msg),
                                           !.persisted = 0])]
        /\ gh' = [gh EXCEPT ![t].events = Append(@, Event("append_assistant", 0, "-"))]
        /\ UNCHANGED <<sched, perm, obs, queue, orphaned, abnormal, turnsLeft, llmLeft>>

\* one round of `for tool_msg in tool_result_msgs`
PersistTool(t) ==
    LET l == th[t]
        tool_msg == l.tool_result_msgs[l.persisted + 1]
    IN  /\ l.pc = "persist_tool"
        /\ files' = append(files, l.session_key, tool_msg)
        /\ th' = [th EXCEPT ![t] =
                    AfterPersist([l EXCEPT !.messages = Append(@, tool_msg),
                                           !.api_messages = Append(@, tool_msg),
                                           !.persisted = @ + 1])]
        /\ gh' = [gh EXCEPT ![t].events =
                    Append(@, Event("append_tool", l.persisted + 1, tool_msg.tool_call_id))]
        /\ UNCHANGED <<sched, perm, obs, queue, orphaned, abnormal, turnsLeft, llmLeft>>

\* the direct caller receives the return value or the exception
Return(t) ==
    /\ th[t].pc \in {"done", "exc"}
    /\ th[t].mode = "direct"
    /\ th' = [th EXCEPT ![t] = IdleLocal]
    /\ gh' = [gh EXCEPT ![t] = IdleGhost]
    /\ abnormal' = (abnormal \/ th[t].pc = "exc")
    /\ UNCHANGED <<sched, perm, obs, queue, files, orphaned, turnsLeft, llmLeft>>

\* the turn of t was interrupted right after its assistant tool-call message was written
LeftOrphan(t) ==
    /\ th[t].pc = "persist_tool"
    /\ th[t].persisted = 0

\* the process dies: every thread is gone, the files stay
Crash ==
    /\ \E t \in Threads : th[t].pc # "idle"
    /\ th' = [t \in Threads |-> IdleLocal]
    /\ gh' = [t \in Threads |-> IdleGhost]
    /\ orphaned' = orphaned \cup {_path(th[t].session_key) : t \in {u \in Threads : LeftOrphan(u)}}
    /\ abnormal' = TRUE
    /\ queue' = NewQueue
    /\ UNCHANGED <<sched, perm, obs, files, turnsLeft, llmLeft>>

TurnStep(t) ==
    \/ \E key \in SessionKeys, text \in UserTexts, n \in 0..MaxBudget,
          cb \in BOOLEAN, thr \in Thresholds : StartTurn(t, key, text, n, cb, thr)
    \/ Load(t)
    \/ \E summary_content \in SummaryContents : CompactSave(t, summary_content)
    \/ CompactRaise(t)
    \/ AppendUser(t)
    \/ \E choice \in Responses : CallLLM(t, choice)
    \/ LLMRaise(t)
    \/ ExecuteTool(t)
    \/ \E returns \in BOOLEAN : OnToolUse(t, returns)
    \/ PersistAssistant(t)
    \/ PersistTool(t)
    \/ Return(t)

Next ==
    \/ \E t \in DirectThreads : TurnStep(t)
    \/ Crash

Spec == Init /\ [][Next]_vars

\* ------------------------------------------------- tool steps of one caller
UndecodableCall == ToolCall("c3", "echo", "not json")
ArrayCall == ToolCall("c4", "echo", "[1]")
NoArgumentsCall == ToolCall("c5", "echo", NoArguments)

\* tool_calls lists that cover what the arguments field of a call can hold
ToolArgLists ==
    ToolCallLists \cup {<<UndecodableCall>>, <<ArrayCall>>, <<NoArgumentsCall>>}

ToolResponses ==
    {c \in [message : [content : Contents, tool_calls : ToolArgLists],
            finish_reason : FinishReasons] :
        c.message.tool_calls # << >> => c.message.content = NoneVal}

\* direct calls with the default threshold and no callback
ToolNext ==
    \E t \in DirectThreads :
        \/ \E key \in SessionKeys, text \in UserTexts, n \in 0..MaxBudget :
              StartTurn(t, key, text, n, FALSE, DefaultThreshold)
        \/ Load(t)
        \/ AppendUser(t)
        \/ \E choice \in ToolResponses : CallLLM(t, choice)
        \/ LLMRaise(t)
        \/ ExecuteTool(t)
        \/ ParseRaise(t)
        \/ PersistAssistant(t)
        \/ PersistTool(t)
        \/ Return(t)

ToolSpec == Init /\ [][ToolNext]_vars

\* ----------------------------------------------------- channels and queue
\* AgentRouter.run: resolve the agent, build the session key, start the turn with the
\* defaults of run_agent_turn
router_run(l, user_text, channel, user_id, on_tool_use) ==
    LET r == resolve(user_text)
    IN  [l EXCEPT !.pc = "load",
                  !.session_key = SessionKeyOf(r.agent, channel, user_id),
                  !.user_text = r.text, !.max_turns = DefaultMaxTurns,
                  !.on_tool_use = on_tool_use,
                  !.compaction_threshold = DefaultThreshold]

\* handle_message up to the with statement: the handler computes the key it locks
HandleMessage(t, user_text, user_id) ==
    /\ th[t].pc = "idle"
    /\ turnsLeft > 0
    /\ turnsLeft' = turnsLeft - 1
    /\ th' = [th EXCEPT ![t] =
                [IdleLocal EXCEPT !.pc = "lock_meta", !.mode = "channel",
                                  !.channel = "telegram", !.user_id = user_id,
                                  !.raw_text = user_text,
                                  !.lock_key = SessionKeyOf(resolve(user_text).agent,
                                                            "telegram", user_id)]]
    /\ UNCHANGED <<sched, perm, obs, queue, files, gh, orphaned, abnormal, llmLeft>>

\* CommandQueue.lock: with self._meta_lock (entry)
MetaAcquire(t) ==
    /\ th[t].pc = "lock_meta"
    /\ queue._meta_lock = NoThread
    /\ queue' = [queue EXCEPT !._meta_lock = t]
    /\ th' = [th EXCEPT ![t].pc = "lock_get"]
    /\ UNCHANGED <<sched, perm, obs, files, gh, orphaned, abnormal, turnsLeft, llmLeft>>

\* a faulty lookup that keeps the map guard while it goes on to acquire the session lock
GetSessionLock_KeepsGuard(t) ==
    LET key == th[t].lock_key
    IN  /\ th[t].pc = "lock_get"
        /\ queue' = [queue EXCEPT
                        !._locks = IF key \in DOMAIN queue._locks THEN @
                                   ELSE (key :> NoThread) @@ @]
        /\ th' = [th EXCEPT ![t].pc = "lock_acquire"]
        /\ UNCHANGED <<sched, perm, obs, files, gh, orphaned, abnormal, turnsLeft, llmLeft>>

\* session_lock = self._locks[session_key] on the defaultdict, and the exit of the
\* with self._meta_lock block
GetSessionLock(t) ==
    LET key == th[t].lock_key
    IN  /\ th[t].pc = "lock_get"
        /\ queue' = [queue EXCEPT
                        !._locks = IF key \in DOMAIN queue._locks THEN @
                                   ELSE (key :> NoThread) @@ @,
                        !._meta_lock = NoThread]
        /\ th' = [th EXCEPT ![t].pc = "lock_acquire"]
        /\ UNCHANGED <<sched, perm, obs, files, gh, orphaned, abnormal, turnsLeft, llmLeft>>

\* a faulty lock that never reports itself locked
locked_Never(q, key) == FALSE

\* threading.Lock.locked() of the lock of key
locked(q, key) == q._locks[key] # NoThread

\* [key for key, lock in self._locks.items() if lock.locked()]
active_sessions(q) == {key \in DOMAIN q._locks : locked(q, key)}

\* session_lock.acquire() on an unlocked lock: the caller takes it at once
Acquire(t) ==
    LET key == th[t].lock_key
    IN  /\ th[t].pc = "lock_acquire"
        /\ ~locked(queue, key)
        /\ queue' = [queue EXCEPT !._locks[key] = t]
        /\ th' = [th EXCEPT ![t].pc = "locked"]
        /\ obs' = [obs EXCEPT !.requests = Append(@, t)]
        /\ UNCHANGED <<sched, perm, files, gh, orphaned, abnormal, turnsLeft, llmLeft>>

\* session_lock.acquire() on a locked lock: the caller blocks
Block(t) ==
    /\ th[t].pc = "lock_acquire"
    /\ locked(queue, th[t].lock_key)
    /\ th' = [th EXCEPT ![t].pc = "blocked"]
    /\ obs' = [obs EXCEPT !.requests = Append(@, t)]
    /\ UNCHANGED <<sched, perm, queue, files, gh, orphaned, abnormal, turnsLeft, llmLeft>>

\* a blocked acquire() returns once the lock is unlocked; which of the blocked
\* threads proceeds is not defined by threading.Lock
Wake(t) ==
    LET key == th[t].lock_key
    IN  /\ th[t].pc = "blocked"
        /\ ~locked(queue, key)
        /\ queue' = [queue EXCEPT !._locks[key] = t]
        /\ th' = [th EXCEPT ![t].pc = "locked"]
        /\ UNCHANGED <<sched, perm, obs, files, gh, orphaned, abnormal, turnsLeft, llmLeft>>

\* the body of the with statement: router.run(..., on_tool_use=_on_tool_use)
RouterRun(t) ==
    LET l == th[t]
    IN  /\ l.pc = "locked"
        /\ th' = [th EXCEPT ![t] = router_run(l, l.raw_text, l.channel, l.user_id, TRUE)]
        /\ UNCHANGED <<sched, perm, obs, queue, files, gh, orphaned, abnormal, turnsLeft, llmLeft>>

\* a faulty exit that releases the lock only when the body returned
Release_OnlyOnReturn(t) ==
    /\ th[t].pc \in {"done", "exc"}
    /\ th[t].mode = "channel"
    /\ queue' = [queue EXCEPT !._locks[th[t].lock_key] =
                                IF th[t].pc = "done" THEN NoThread ELSE @]
    /\ obs' = [obs EXCEPT !.requests = SelectSeq(@, LAMBDA u : u # t),
                          !.raised_on = IF th[t].pc = "exc"
                                        THEN @ \cup {th[t].lock_key} ELSE @]
    /\ th' = [th EXCEPT ![t] = IdleLocal]
    /\ gh' = [gh EXCEPT ![t] = IdleGhost]
    /\ abnormal' = (abnormal \/ th[t].pc = "exc")
    /\ UNCHANGED <<sched, perm, files, orphaned, turnsLeft, llmLeft>>

\* finally: session_lock.release(); the handler then replies, or reports the exception
Release(t) ==
    /\ th[t].pc \in {"done", "exc"}
    /\ th[t].mode = "channel"
    /\ queue' = [queue EXCEPT !._locks[th[t].lock_key] = NoThread]
    /\ obs' = [obs EXCEPT !.requests = SelectSeq(@, LAMBDA u : u # t),
                          !.raised_on = IF th[t].pc = "exc"
                                        THEN @ \cup {th[t].lock_key} ELSE @]
    /\ th' = [th EXCEPT ![t] = IdleLocal]
    /\ gh' = [gh EXCEPT ![t] = IdleGhost]
    /\ abnormal' = (abnormal \/ th[t].pc = "exc")
    /\ UNCHANGED <<sched, perm, files, orphaned, turnsLeft, llmLeft>>

\* HeartbeatScheduler._fire and _heartbeat_run_fn: router.run on the scheduler thread
Fire(t, heartbeat) ==
    LET session_key == <<"cron", ":", heartbeat.name>>
    IN  /\ th[t].pc = "idle"
        /\ turnsLeft > 0
        /\ turnsLeft' = turnsLeft - 1
        /\ th' = [th EXCEPT ![t] =
                    router_run([IdleLocal EXCEPT !.mode = "heartbeat",
                                                 !.channel = "heartbeat",
                                                 !.user_id = session_key,
                                                 !.raw_text = heartbeat.prompt],
                               heartbeat.prompt, "heartbeat", session_key, FALSE)]
        /\ UNCHANGED <<sched, perm, obs, queue, files, gh, orphaned, abnormal, llmLeft>>

\* _fire after run_fn: on_result with the response, or the exception is logged
FireDone(t) ==
    /\ th[t].pc \in {"done", "exc"}
    /\ th[t].mode = "heartbeat"
    /\ th' = [th EXCEPT ![t] = IdleLocal]
    /\ gh' = [gh EXCEPT ![t] = IdleGhost]
    /\ abnormal' = (abnormal \/ th[t].pc = "exc")
    /\ UNCHANGED <<sched, perm, obs, queue, files, orphaned, turnsLeft, llmLeft>>

\* the responses of the model behind the channels: a text, or one call of echo
QueueResponses ==
    {r \in Responses :
        \/ r.finish_reason = "stop" /\ r.message.tool_calls = << >>
        \/ r.finish_reason = "tool_use" /\ Len(r.message.tool_calls) = 1
                                        /\ r.message.tool_calls[1].function.name = "echo"}

\* the steps of run_agent_turn once a channel or a heartbeat has started it
RunStep(t) ==
    \/ Load(t)
    \/ AppendUser(t)
    \/ \E choice \in QueueResponses : CallLLM(t, choice)
    \/ LLMRaise(t)
    \/ ExecuteTool(t)
    \/ \E returns \in BOOLEAN : OnToolUse(t, returns)
    \/ PersistAssistant(t)
    \/ PersistTool(t)

QueueNext ==
    \/ \E t \in ChannelThreads, user_text \in ChannelTexts, user_id \in UserIds :
          HandleMessage(t, user_text, user_id)
    \/ \E t \in ChannelThreads : MetaAcquire(t)
    \/ \E t \in ChannelThreads : GetSessionLock(t)
    \/ \E t \in ChannelThreads : Acquire(t)
    \/ \E t \in ChannelThreads : Block(t)
    \/ \E t \in ChannelThreads : Wake(t)
    \/ \E t \in ChannelThreads : RouterRun(t)
    \/ \E t \in ChannelThreads : Release(t)
    \/ \E t \in HeartbeatThreads, heartbeat \in Heartbeats : Fire(t, heartbeat)
    \/ \E t \in HeartbeatThreads : FireDone(t)
    \/ \E t \in ChannelThreads \cup HeartbeatThreads : RunStep(t)

QueueSpec == Init /\ [][QueueNext]_vars

\* ------------------------------------------- heartbeats next to a channel
\* the heartbeats of config.json: a prompt for the default agent and one that
\* begins with the prefix of Scout
ScheduledHeartbeats ==
    Heartbeats \cup
    {[name |-> "hb2", prompt |-> <<"/", "r", "e", "s", "e", "a", "r", "c", "h", " ", "q">>,
      agent |-> "main"]}

InteractiveThreads == {"tg1"}

HeartbeatNext ==
    \/ \E t \in HeartbeatThreads, heartbeat \in ScheduledHeartbeats : Fire(t, heartbeat)
    \/ \E t \in HeartbeatThreads : FireDone(t)
    \/ \E t \in InteractiveThreads, user_text \in ChannelTexts, user_id \in UserIds :
          HandleMessage(t, user_text, user_id)
    \/ \E t \in InteractiveThreads : MetaAcquire(t)
    \/ \E t \in InteractiveThreads : GetSessionLock(t)
    \/ \E t \in InteractiveThreads : Acquire(t)
    \/ \E t \in InteractiveThreads : RouterRun(t)
    \/ \E t \in InteractiveThreads : Release(t)
    \/ \E t \in InteractiveThreads \cup HeartbeatThreads : RunStep(t)

HeartbeatSpec == Init /\ [][HeartbeatNext]_vars

\* ------------------------------------------------------- the HTTP channel
\* the user_id fields of the POST /chat requests
HttpUserIds == {<<"a", ":", "b">>, <<"a", "_", "b">>}
HttpMessages == {<<"h", "i">>, <<" ", "h", "i">>}

\* chat() up to the with statement: user_text = data.get("message", "").strip(),
\* user_id = data.get("user_id", "anonymous"), and the key the request locks
Chat(t, message, user_id) ==
    /\ th[t].pc = "idle"
    /\ turnsLeft > 0
    /\ Strip(message) # << >>
    /\ turnsLeft' = turnsLeft - 1
    /\ th' = [th EXCEPT ![t] =
                [IdleLocal EXCEPT !.pc = "lock_meta", !.mode = "channel",
                                  !.channel = "http", !.user_id = user_id,
                                  !.raw_text = Strip(message),
                                  !.lock_key = SessionKeyOf(resolve(Strip(message)).agent,
                                                            "http", user_id)]]
    /\ UNCHANGED <<sched, perm, obs, queue, files, gh, orphaned, abnormal, llmLeft>>

\* the body of the with statement of chat(): router.run(...) without on_tool_use
HttpRun(t) ==
    LET l == th[t]
    IN  /\ l.pc = "locked"
        /\ th' = [th EXCEPT ![t] = router_run(l, l.raw_text, l.channel, l.user_id, FALSE)]
        /\ UNCHANGED <<sched, perm, obs, queue, files, gh, orphaned, abnormal, turnsLeft, llmLeft>>

\* the responses of the model behind the HTTP API: a text
HttpResponses ==
    {r \in Responses : r.finish_reason = "stop" /\ r.message.tool_calls = << >>}

HttpNext ==
    \/ \E t \in HttpThreads, message \in HttpMessages, user_id \in HttpUserIds :
          Chat(t, message, user_id)
    \/ \E t \in HttpThreads : MetaAcquire(t)
    \/ \E t \in HttpThreads : GetSessionLock(t)
    \/ \E t \in HttpThreads : Acquire(t)
    \/ \E t \in HttpThreads : Block(t)
    \/ \E t \in HttpThreads : Wake(t)
    \/ \E t \in HttpThreads : HttpRun(t)
    \/ \E t \in HttpThreads : Load(t)
    \/ \E t \in HttpThreads : AppendUser(t)
    \/ \E t \in HttpThreads, choice \in HttpResponses : CallLLM(t, choice)
    \/ \E t \in HttpThreads : LLMRaise(t)
    \/ \E t \in HttpThreads : Release(t)

HttpSpec == Init /\ [][HttpNext]_vars

\* --------------------------------------------- the store and its crashes
StoreKey == <<"test">>

StoreMessages ==
    {UserMsg(<<"h", "i">>),
     _serialize_assistant_message([content |-> <<"hi">>, tool_calls |-> << >>])}

Observed(op, wrote) ==
    [obs EXCEPT !.op = op, !.before = load(files, StoreKey),
                !.was = ContentOf(files, StoreKey), !.wrote = wrote]

\* what a write of json.dumps(message) + "\n" that the end of the process cut short
\* has put into the file: nothing, a part of the JSON text, or all of it but the "\n"
CutWrites(message) == {<< >>, <<CutShort(message)>>, <<Dumps(message)>>}

RECURSIVE Writes(_)
\* the number of JSON texts, whole or cut short, in the file
Writes(content) ==
    IF content = << >> THEN 0
    ELSE Len(content[1].text) + Writes(Tail(content))

\* session_store.append(session_key, message)
StoreAppend(message) ==
    /\ Writes(ContentOf(files, StoreKey)) < MaxWrites
    /\ files' = append(files, StoreKey, message)
    /\ obs' = Observed("append", <<message>>)
    /\ UNCHANGED <<sched, perm, queue, th, gh, orphaned, abnormal, turnsLeft, llmLeft>>

\* the process dies inside append(): the file is open for appending and the write
\* is cut short
StoreAppendCrash(message, text) ==
    /\ Writes(ContentOf(files, StoreKey)) < MaxWrites
    /\ files' = WithContent(files, StoreKey,
                            WriteAtEnd(ContentOf(files, StoreKey), text, FALSE))
    /\ obs' = Observed("append_crash", <<message>>)
    /\ UNCHANGED <<sched, perm, queue, th, gh, orphaned, abnormal, turnsLeft, llmLeft>>

\* session_store.save(session_key, session_store.load(session_key))
StoreSaveLoaded ==
    /\ files' = save(files, StoreKey, load(files, StoreKey))
    /\ obs' = Observed("save_loaded", load(files, StoreKey))
    /\ UNCHANGED <<sched, perm, queue, th, gh, orphaned, abnormal, turnsLeft, llmLeft>>

\* what run_agent_turn saves when the compaction trigger fires
Compacted(summary_content) ==
    compact(_sanitize_loaded_messages(load(files, StoreKey)), LowThreshold, summary_content)

CompactionDue ==
    estimate_tokens(_sanitize_loaded_messages(load(files, StoreKey))) >= LowThreshold

\* messages = compact(...); session_store.save(session_key, messages)
StoreCompactSave(summary_content) ==
    /\ CompactionDue
    /\ files' = save(files, StoreKey, Compacted(summary_content))
    /\ obs' = Observed("save", Compacted(summary_content))
    /\ UNCHANGED <<sched, perm, queue, th, gh, orphaned, abnormal, turnsLeft, llmLeft>>

\* the process dies inside that save(): open(path, "w") has emptied the file, the
\* first `written` messages were written and the next write was cut short
StoreSaveCrash(summary_content, written, cut) ==
    LET messages == Compacted(summary_content)
        lines == ContentOf(save(files, StoreKey, SubSeq(messages, 1, written)), StoreKey)
    IN  /\ CompactionDue
        /\ written < Len(messages)
        /\ \/ cut = "nothing" /\ files' = WithContent(files, StoreKey, lines)
           \/ cut = "part" /\ files' = WithContent(files, StoreKey,
                   WriteAtEnd(lines, <<CutShort(messages[written + 1])>>, FALSE))
        /\ obs' = Observed("save_crash", messages)
        /\ UNCHANGED <<sched, perm, queue, th, gh, orphaned, abnormal, turnsLeft, llmLeft>>

StoreNext ==
    \/ \E message \in StoreMessages : StoreAppend(message)
    \/ \E message \in StoreMessages : \E text \in CutWrites(message) :
          StoreAppendCrash(message, text)
    \/ StoreSaveLoaded
    \/ \E summary_content \in SummaryContents : StoreCompactSave(summary_content)
    \/ \E summary_content \in SummaryContents, written \in 0..MaxWrites,
          cut \in {"nothing", "part"} : StoreSaveCrash(summary_content, written, cut)

StoreSpec == Init /\ [][StoreNext]_vars

\* ------------------------------------------- the functions by themselves
\* the message lists a function is called on: what a session file may hold
ListMessages ==
    {UserMsg(<<"h", "i">>),
     _serialize_assistant_message([content |-> <<"hi">>, tool_calls |-> << >>]),
     _serialize_assistant_message([content |-> NoneVal, tool_calls |-> <<EchoCall>>]),
     ToolResultMsg(EchoCall, <<"echoed: ", "x">>)}

MessageLists == UNION {[1..n -> ListMessages] : n \in 0..MaxLen}

\* the state in which a function is about to be called with the given arguments
Given(arguments) ==
    /\ queue = NewQueue
    /\ obs = [NoObs EXCEPT !.call = arguments]
    /\ files = << >>
    /\ th = [t \in Threads |-> IdleLocal]
    /\ gh = [t \in Threads |-> IdleGhost]
    /\ orphaned = {}
    /\ abnormal = FALSE
    /\ turnsLeft = MaxTurns
    /\ llmLeft = MaxLLMCalls
    /\ sched = NewScheduler
    /\ perm = NewPermissions

SanitizeInit ==
    \E messages \in MessageLists : Given([fn |-> "given", messages |-> messages])

\* _sanitize_loaded_messages(messages)
Sanitize ==
    /\ obs.call.fn = "given"
    /\ obs' = [obs EXCEPT !.call =
                  [fn |-> "_sanitize_loaded_messages", messages |-> obs.call.messages,
                   returned |-> _sanitize_loaded_messages(obs.call.messages),
                   again |-> FALSE]]
    /\ UNCHANGED <<sched, perm, queue, files, th, gh, orphaned, abnormal, turnsLeft, llmLeft>>

\* _sanitize_loaded_messages(x) where x is what the call before returned (first is
\* the argument of that call)
SanitizeAgain ==
    /\ obs.call.fn = "_sanitize_loaded_messages"
    /\ ~obs.call.again
    /\ obs' = [obs EXCEPT !.call =
                  [fn |-> "_sanitize_loaded_messages", messages |-> obs.call.returned,
                   returned |-> _sanitize_loaded_messages(obs.call.returned),
                   again |-> TRUE, first |-> obs.call.messages]]
    /\ UNCHANGED <<sched, perm, queue, files, th, gh, orphaned, abnormal, turnsLeft, llmLeft>>

SanitizeNext == Sanitize \/ SanitizeAgain

SanitizeSpec == SanitizeInit /\ [][SanitizeNext]_vars

CompactInit ==
    \E messages \in MessageLists, threshold \in Thresholds,
       summary_content \in SummaryContents :
        Given([fn |-> "given", messages |-> messages, threshold |-> threshold,
               summary_content |-> summary_content])

\* compact(messages, client, model, threshold) with a client whose summary response
\* has the given content; llm_called: client.chat.completions.create was called
Compact ==
    /\ obs.call.fn = "given"
    /\ obs' = [obs EXCEPT !.call =
                  [fn |-> "compact", messages |-> obs.call.messages,
                   threshold |-> obs.call.threshold,
                   summary_content |-> obs.call.summary_content,
                   returned |-> compact(obs.call.messages, obs.call.threshold,
                                        obs.call.summary_content),
                   split |-> _split_messages(obs.call.messages),
                   llm_called |-> CompactCallsLLM(obs.call.messages, obs.call.threshold)]]
    /\ UNCHANGED <<sched, perm, queue, files, th, gh, orphaned, abnormal, turnsLeft, llmLeft>>

CompactNext == Compact

CompactSpec == CompactInit /\ [][CompactNext]_vars

\* ------------------------------------------------- resolve by itself
\* further prefix agents: one registered with the prefix of Scout, and one whose
\* prefix is a leading part of it
Digger ==
    [name |-> "Digger", prefix |-> <<"/", "r", "e", "s", "e", "a", "r", "c", "h">>,
     session_prefix |-> <<"agent", ":", "dig">>]

Rex ==
    [name |-> "Rex", prefix |-> <<"/", "r", "e">>,
     session_prefix |-> <<"agent", ":", "rex">>]

\* the agents argument of AgentRouter(...), in registration order
AgentLists == {<<Scout>>, <<Scout, Digger>>, <<Rex, Scout>>, <<Scout, Rex>>}

\* the texts resolve is called on: spaces or none, a first word, and what follows it
FirstWords ==
    {<<"h", "i">>,
     <<"/", "r", "e">>,
     <<"/", "r", "e", "s", "e", "a", "r", "c", "h">>,
     <<"/", "R", "e", "s", "e", "a", "r", "c", "h">>,
     <<"/", "r", "e", "s", "e", "a", "r", "c", "h", "e", "r">>}

RouterTexts ==
    {head \o word \o rest :
        head \in {<< >>, <<" ">>}, word \in FirstWords,
        rest \in {<< >>, <<" ">>, <<" ", "q">>, <<" ", "q", " ">>}}

ResolveInit ==
    \E agents \in AgentLists, user_text \in RouterTexts :
        Given([fn |-> "given", agents |-> agents, user_text |-> user_text])

\* AgentRouter(default_agent=jarvis, agents=agents).resolve(user_text)
Resolve ==
    /\ obs.call.fn = "given"
    /\ obs' = [obs EXCEPT !.call =
                  [fn |-> "resolve", agents |-> obs.call.agents,
                   user_text |-> obs.call.user_text,
                   returned |-> AgentRouter_resolve(AgentRouter(DefaultAgent, obs.call.agents),
                                                    obs.call.user_text)]]
    /\ UNCHANGED <<sched, perm, queue, files, th, gh, orphaned, abnormal, turnsLeft, llmLeft>>

ResolveNext == Resolve

ResolveSpec == ResolveInit /\ [][ResolveNext]_vars

\* ------------------------------------------------------------- properties
\* Invariant 1 of the data model: every assistant message with tool calls c1..ck is
\* followed by exactly k tool messages answering c1..ck in that order.
ToolCallClosure(log) ==
    \A i \in 1..Len(log) :
        IsOrphanCandidate(log[i]) =>
            LET tool_calls == log[i].tool_calls
                k == Len(tool_calls)
            IN  /\ i + k <= Len(log)
                /\ \A j \in 1..k : /\ log[i + j].role = "tool"
                                   /\ log[i + j].tool_call_id = tool_calls[j].id
                /\ i + k + 1 <= Len(log) => log[i + k + 1].role # "tool"

\* s is exactly n complete tool cycles, one after the other
RECURSIVE IsCycles(_, _)
IsCycles(s, n) ==
    IF n = 0 THEN s = << >>
    ELSE /\ s # << >>
         /\ IsOrphanCandidate(s[1])
         /\ LET k == Len(s[1].tool_calls)
            IN  /\ Len(s) >= k + 1
                /\ \A j \in 1..k : /\ s[1 + j].role = "tool"
                                   /\ s[1 + j].tool_call_id = s[1].tool_calls[j].id
                /\ IsCycles(SubSeq(s, k + 2, Len(s)), n - 1)

InTurn(t) ==
    th[t].pc \notin {"idle", "lock_meta", "lock_get", "lock_acquire", "blocked", "locked"}

StoredLog(t) == load(files, th[t].session_key)

\* the stored log is base, then the user message of the turn of t, then n tool cycles
GainedCycles(t, base, n) ==
    LET log == StoredLog(t)
        b == Len(base)
    IN  /\ Len(log) >= b + 1
        /\ SubSeq(log, 1, b) = base
        /\ log[b + 1] = UserMsg(th[t].user_text)
        /\ IsCycles(SubSeq(log, b + 2, Len(log)), n)

\* the log the turn of t builds on: what it loaded, or what it wrote back after the
\* compaction trigger fired
TurnBase(t) == IF gh[t].overwrote THEN gh[t].saved ELSE gh[t].pre

EventsOf(t, ops) == SelectSeq(gh[t].events, LAMBDA e : e.op \in ops)

AppendOps == {"append_assistant", "append_tool"}

StepCalls(t) == th[t].assistant_message.tool_calls

\* C1: after turns that all returned normally, starting from an empty log, every
\* assistant message with tool calls in the stored log is followed by exactly its
\* tool results, in order.
C1_ClosureAfterNormalTurns ==
    \A t \in Threads :
        (th[t].pc = "done" /\ ~abnormal) => ToolCallClosure(StoredLog(t))

\* C2: during a tool step, once the assistant tool-call message of the step is in the
\* stored log, all of its tool results are in the stored log as well.
C2_NoAssistantBeforeResults ==
    \A t \in Threads :
        (InTurn(t) /\ EventsOf(t, {"append_assistant"}) # << >>) =>
            Len(EventsOf(t, {"append_tool"})) = Len(StepCalls(t))

\* C3: whenever the process may die during a turn that started from a closed log, what
\* load and the sanitiser make of the surviving log is closed again.
C3_CrashRecoveryClosed ==
    \A t \in Threads :
        (InTurn(t) /\ th[t].pc # "load" /\ ToolCallClosure(gh[t].pre)) =>
            ToolCallClosure(_sanitize_loaded_messages(StoredLog(t)))

\* C4: every execution of run_agent_turn, started by a channel or by a heartbeat,
\* takes place while its thread holds the CommandQueue lock of the turn's session key.
C4_TurnsHoldSessionLock ==
    \A t \in ChannelThreads \cup HeartbeatThreads :
        InTurn(t) =>
            /\ th[t].session_key \in DOMAIN queue._locks
            /\ queue._locks[th[t].session_key] = t

\* C5: once an interrupted turn left the log ending in an orphan assistant tool-call
\* message, no LLM request of a later turn contains an unanswered tool-call message.
C5_NoOrphanInRequests ==
    \A t \in Threads :
        (th[t].pc = "llm" /\ _path(th[t].session_key) \in orphaned) =>
            ToolCallClosure(Tail(th[t].api_messages))

\* C6 as claimed: when the LLM call raises in iteration j, the stored log is the
\* pre-turn log, the user message and the j-1 complete tool cycles.
C6_RaiseKeepsPreTurnLog ==
    \A t \in Threads :
        (th[t].pc = "exc" /\ th[t].raised = "llm") =>
            GainedCycles(t, gh[t].pre, th[t].turn)

\* C6 as amended: when the LLM call raises in iteration j, the stored log is the log
\* the turn built on (the pre-turn log, or what the turn wrote back when the
\* compaction trigger fired), the user message and the j-1 complete tool cycles.
C6_RaiseKeepsCompleteCycles ==
    \A t \in Threads :
        (th[t].pc = "exc" /\ th[t].raised = "llm") =>
            GainedCycles(t, TurnBase(t), th[t].turn)

C6_Witness ==
    \E t \in Threads :
        /\ th[t].pc = "exc" /\ th[t].raised = "llm"
        /\ th[t].turn >= 1
        /\ gh[t].overwrote
        /\ gh[t].saved # gh[t].pre

C8_AppendAfterAllTools ==
    \A t \in Threads :
        LET events == gh[t].events
        IN  \A i \in 1..Len(events) :
                events[i].op \in AppendOps =>
                    \A c \in 1..Len(StepCalls(t)) :
                        \E e \in 1..(i - 1) :
                            events[e].op = "execute" /\ events[e].index = c

C8_Witness ==
    \E t \in Threads :
        /\ Len(StepCalls(t)) = 2
        /\ Len(EventsOf(t, {"append_tool"})) = 2

\* C9: the tools of a step are executed in the order of tool_calls, and the tool
\* messages are appended in that order, the i-th carrying the id of the i-th call.
C9_DeclarationOrder ==
    \A t \in Threads :
        LET executes == EventsOf(t, {"execute"})
            appends == EventsOf(t, {"append_tool"})
            log == StoredLog(t)
        IN  /\ \A i \in 1..Len(executes) :
                   /\ i <= Len(StepCalls(t))
                   /\ executes[i].id = StepCalls(t)[i].id
            /\ \A i \in 1..Len(appends) :
                   /\ i <= Len(StepCalls(t))
                   /\ appends[i].id = StepCalls(t)[i].id
                   /\ LET m == log[Len(log) - Len(appends) + i]
                      IN  m.role = "tool" /\ m.tool_call_id = StepCalls(t)[i].id

C9_Witness ==
    \E t \in Threads :
        /\ Len(StepCalls(t)) = 2
        /\ StepCalls(t)[1].id = "c2"
        /\ Len(EventsOf(t, {"append_tool"})) = 2

\* C10: with a callback given, on_tool_use fires exactly once for each executed tool
\* call, right after that call's execute and before any append of the step.
C10_CallbackOncePerTool ==
    \A t \in Threads :
        LET events == gh[t].events
        IN  /\ \A i \in 1..Len(events) :
                   /\ events[i].op = "on_tool_use" =>
                          /\ th[t].on_tool_use
                          /\ i > 1
                          /\ events[i - 1].op = "execute"
                          /\ events[i - 1].index = events[i].index
                          /\ \A e \in 1..i : events[e].op \notin AppendOps
                   /\ (events[i].op = "execute" /\ th[t].on_tool_use) =>
                          IF i < Len(events)
                          THEN /\ events[i + 1].op = "on_tool_use"
                               /\ events[i + 1].index = events[i].index
                          ELSE th[t].pc = "notify"
            /\ \A i, j \in 1..Len(events) :
                   (/\ events[i].op = "on_tool_use" /\ events[j].op = "on_tool_use"
                    /\ events[i].index = events[j].index) => i = j

C10_Witness ==
    \E t \in Threads :
        /\ th[t].on_tool_use
        /\ Len(EventsOf(t, {"on_tool_use"})) = 2
        /\ Len(EventsOf(t, AppendOps)) = 3
\* the strings an error result of the registry begins with
ErrorHeads == {"Error: Unknown tool '", "Error executing "}

BeginsWithError(s) == s # << >> /\ Head(s) \in ErrorHeads

\* the tool messages the running step of t has collected are the last of s
EndsWithResults(t, s) ==
    LET results == th[t].tool_result_msgs
    IN  /\ Len(s) >= Len(results)
        /\ SubSeq(s, Len(s) - Len(results) + 1, Len(s)) = results

\* C11: the result of an unregistered tool is "Error: Unknown tool '<name>'" and the
\* result of a tool whose handler raised begins with "Error"; the loop collects that
\* string as the tool message of the call, and a step that ran such a tool stores
\* its tool messages and goes on to the next LLM call.
C11_ErrorsBecomeToolResults ==
    \A t \in Threads :
        /\ \A i \in 1..Len(th[t].tool_result_msgs) :
               LET tool_call == StepCalls(t)[i]
                   name == tool_call.function.name
                   content == th[t].tool_result_msgs[i].content
               IN  /\ th[t].tool_result_msgs[i].role = "tool"
                   /\ th[t].tool_result_msgs[i].tool_call_id = tool_call.id
                   /\ name \notin RegisteredTools =>
                          content = <<"Error: Unknown tool '", name, "'">>
                   /\ (/\ name \in RegisteredTools
                       /\ EchoHandler(ParseToolInput(tool_call.function.arguments)).raised)
                          => BeginsWithError(content)
        /\ (th[t].pc = "llm" /\ th[t].turn >= 1) =>
               /\ Len(th[t].tool_result_msgs) = Len(StepCalls(t))
               /\ EndsWithResults(t, StoredLog(t))
               /\ EndsWithResults(t, th[t].api_messages)

C11_Witness ==
    \E t \in Threads :
        /\ th[t].pc = "llm" /\ th[t].turn >= 1
        /\ \E i \in 1..Len(th[t].tool_result_msgs) :
               /\ StepCalls(t)[i].function.name \in RegisteredTools
               /\ Head(th[t].tool_result_msgs[i].content) = "Error executing "

ParsesToObject(arguments) ==
    /\ JsonLoads(arguments).raised = "no"
    /\ JsonLoads(arguments).value.type = "object"

\* C12: for a tool call whose arguments cannot be parsed into a JSON object the tool
\* is invoked with the empty object, so its result is that of execute(name, {}),
\* and the arguments never make the turn raise.
C12_UnparsableArgumentsGiveEmptyObject ==
    \A t \in Threads :
        /\ th[t].raised # "arguments"
        /\ \A i \in 1..Len(th[t].tool_result_msgs) :
               LET tool_call == StepCalls(t)[i]
               IN  ~ParsesToObject(tool_call.function.arguments) =>
                       th[t].tool_result_msgs[i].content =
                           execute(tool_call.function.name, JsonObject({}))

\* C13: a response starts a tool step if and only if its finish_reason is
\* "tool_calls" or "tool_use" and its tool_calls are non-empty; any other response
\* is stored as the final assistant message and ends the turn with its text.
C13_ToolRequestingIff ==
    [][\A t \in DirectThreads, choice \in ToolResponses :
          CallLLM(t, choice) =>
              IF /\ choice.finish_reason \in {"tool_calls", "tool_use"}
                 /\ choice.message.tool_calls # << >>
              THEN /\ th'[t].pc = "tool"
                   /\ th'[t].assistant_message = choice.message
                   /\ files' = files
              ELSE /\ th'[t].pc = "done"
                   /\ th'[t].result = (IF choice.message.content \in {NoneVal, EmptyStr}
                                       THEN EmptyStr ELSE choice.message.content)
                   /\ load(files', th[t].session_key) =
                          Append(StoredLog(t), _serialize_assistant_message(choice.message))
      ]_vars

C13_Witness ==
    \E t \in Threads :
        /\ th[t].pc = "done"
        /\ th[t].result = EmptyStr
        /\ StoredLog(t) # << >>
        /\ IsOrphanCandidate(StoredLog(t)[Len(StoredLog(t))])
\* t is inside the body of `with command_queue.lock(key)`, the lock acquired
InBody(t) ==
    /\ th[t].mode = "channel"
    /\ th[t].pc \notin {"idle", "lock_meta", "lock_get", "lock_acquire", "blocked"}

\* C14: at most one thread is inside the body of `with queue.lock(k)` for any key k,
\* and active_sessions holds exactly the keys whose lock some thread holds.
C14_MutualExclusionPerKey ==
    /\ \A t, u \in ChannelThreads :
           (t # u /\ InBody(t) /\ InBody(u)) => th[t].lock_key # th[u].lock_key
    /\ active_sessions(queue) = {th[t].lock_key : t \in {u \in ChannelThreads : InBody(u)}}

C14_Witness ==
    \E t, u \in ChannelThreads :
        /\ InBody(t)
        /\ th[u].pc = "blocked"
        /\ th[u].lock_key = th[t].lock_key
        /\ th[t].lock_key \in active_sessions(queue)

\* C15: the map guard is held only during the lookup of the session lock, never by
\* a thread that waits for or holds a session lock, so a thread asking for a key
\* whose lock is free can take it whatever other threads hold or wait for.
C15_GuardNeverHeldWhileBlocking ==
    /\ \A t \in ChannelThreads :
           queue._meta_lock = t <=> th[t].pc = "lock_get"
    /\ \A t \in ChannelThreads :
           /\ (th[t].pc = "lock_acquire" /\ ~locked(queue, th[t].lock_key)) =>
                  ENABLED Acquire(t)
           /\ (th[t].pc = "blocked" /\ ~locked(queue, th[t].lock_key)) =>
                  ENABLED Wake(t)
    /\ \A t \in ChannelThreads :
           (th[t].pc = "lock_meta" /\ queue._meta_lock # NoThread) =>
               ENABLED GetSessionLock(queue._meta_lock)

C15_Witness ==
    \E t, u \in ChannelThreads :
        /\ InBody(t) /\ InBody(u)
        /\ th[t].lock_key # th[u].lock_key

\* C16: whenever a thread leaves the locked body, by return or by exception, the lock
\* of its key is free afterwards.
C16_ReleasedOnEveryExit ==
    [][\A t \in ChannelThreads :
          (InBody(t) /\ th[t].pc \in {"done", "exc"} /\ th'[t].pc = "idle") =>
              /\ th[t].lock_key \in DOMAIN queue'._locks
              /\ ~locked(queue', th[t].lock_key)
      ]_vars

C16_Witness ==
    \E t \in ChannelThreads :
        /\ th[t].pc = "locked"
        /\ th[t].lock_key \in obs.raised_on

\* C17: the thread that holds the lock of a key is the earliest of the threads whose
\* acquire() of that key's lock is outstanding: no thread blocked on the lock is
\* overtaken by a thread that called acquire() later.
C17_ServedInRequestOrder ==
    \A j \in 1..Len(obs.requests) :
        InBody(obs.requests[j]) =>
            \A i \in 1..(j - 1) :
                th[obs.requests[i]].lock_key # th[obs.requests[j]].lock_key

\* C18: after append(session_key, message) has completed, load(session_key)
\* returns what it returned before the append followed by the message, whatever
\* the file held: also a file whose last line is a record that was cut short
C18_LoadAfterAppendExtendsLoad ==
    obs.op = "append" => load(files, StoreKey) = obs.before \o obs.wrote

\* the file without its newline terminators: the text of each of its lines
Texts(content) == [i \in 1..Len(content) |-> content[i].text]

AllLoadable(content) == \A i \in 1..Len(content) : Loadable(content[i])

\* C19 as stated: save(session_key, load(session_key)) leaves the file as it was
\* up to newline terminators and leaves load(session_key) unchanged, whatever
\* the file held, lines that cannot be decoded included
C19_SaveLoadedIsNoOp ==
    obs.op = "save_loaded" =>
        /\ load(files, StoreKey) = obs.before
        /\ Texts(ContentOf(files, StoreKey)) = Texts(obs.was)

\* C19 as the code has it: save(session_key, load(session_key)) leaves
\* load(session_key) unchanged and leaves a file of exactly the loaded messages,
\* one terminated line each; the file is the same as before up to newline
\* terminators when every line of the file before could be decoded
C19_SaveLoadedKeepsLoad ==
    obs.op = "save_loaded" =>
        /\ load(files, StoreKey) = obs.before
        /\ ContentOf(files, StoreKey) =
              [i \in 1..Len(obs.before) |-> Line(<<Dumps(obs.before[i])>>, TRUE)]
        /\ AllLoadable(obs.was) =>
              Texts(ContentOf(files, StoreKey)) = Texts(obs.was)

\* a file with messages and a line that cannot be decoded was saved from its load
C19_Witness ==
    /\ obs.op = "save_loaded"
    /\ obs.before # << >>
    /\ ~AllLoadable(obs.was)
    /\ load(files, StoreKey) = obs.before

Without(messages, i) == SubSeq(messages, 1, i - 1) \o SubSeq(messages, i + 1, Len(messages))

\* `loaded` is `messages` with at most one message missing
AtMostOneLost(messages, loaded) ==
    \/ loaded = messages
    \/ \E i \in 1..Len(messages) : loaded = Without(messages, i)

\* the log the operation cut short was to leave
Intended ==
    IF obs.op = "append_crash" THEN obs.before \o obs.wrote ELSE obs.wrote

\* C20: after the process died inside an append, or inside the overwrite that
\* follows compaction, load(session_key) returns the log as it was before the
\* operation or as the operation was to leave it, with at most one message
\* missing: no message whose write had completed is lost
C20_CrashLosesAtMostOneMessage ==
    obs.op \in {"append_crash", "save_crash"} =>
        \/ AtMostOneLost(obs.before, load(files, StoreKey))
        \/ AtMostOneLost(Intended, load(files, StoreKey))

\* the turn of t is between its first and its last access to the session log
Writing(t) == th[t].pc \in {"load", "compact", "user", "llm", "tool", "notify", "collect",
                            "persist", "persist_tool"}

\* C21: two turns that run at the same time under the locks of two distinct
\* session keys work on two distinct session log files
C21_DistinctKeysDistinctFiles ==
    \A t, u \in Threads :
        /\ Writing(t) /\ Writing(u)
        /\ th[t].session_key # th[u].session_key
        => _path(th[t].session_key) # _path(th[u].session_key)

\* the step appends one message to the log of the turn of t and writes nothing else
AppendsToOwnLog(t) ==
    LET key == th[t].session_key
        after == load(files', key)
    IN  /\ th[t].pc \notin {"idle", "load", "compact"}
        /\ after # << >>
        /\ after = Append(load(files, key), after[Len(after)])
        /\ \A p \in DOMAIN files : p # _path(key) => p \in DOMAIN files' /\ files'[p] = files[p]
        /\ DOMAIN files' = DOMAIN files \cup {_path(key)}

\* the step overwrites the log of the turn of t with what compact returned, the
\* trigger having fired
OverwritesAfterTrigger(t) ==
    /\ th[t].pc = "compact"
    /\ estimate_tokens(th[t].messages) >= th[t].compaction_threshold
    /\ files' = save(files, th[t].session_key, th'[t].messages)

\* the turn of t got past the start of the turn
PastCompaction(t) ==
    th[t].pc \in {"user", "llm", "tool", "notify", "persist", "persist_tool", "done"}

TriggerFired(t) ==
    estimate_tokens(_sanitize_loaded_messages(gh[t].pre)) >= th[t].compaction_threshold

RequestsTools(m) ==
    m.role = "assistant" /\ "tool_calls" \in DOMAIN m /\ Len(m.tool_calls) > 0

EndsWithRequest(messages) ==
    messages # << >> /\ RequestsTools(messages[Len(messages)])

Prefix(messages, n) == SubSeq(messages, 1, n)

\* C23: _sanitize_loaded_messages returns the longest prefix of its argument that
\* does not end with an assistant message carrying non-empty tool_calls: the
\* result never ends with such a message, and an argument that does not end with
\* one is returned unchanged
C23_SanitizeIsLongestClosedPrefix ==
    obs.call.fn = "_sanitize_loaded_messages" =>
        LET messages == obs.call.messages
            returned == obs.call.returned
        IN  /\ \E n \in 0..Len(messages) :
                  /\ returned = Prefix(messages, n)
                  /\ \A k \in (n + 1)..Len(messages) : EndsWithRequest(Prefix(messages, k))
            /\ ~EndsWithRequest(returned)
            /\ ~EndsWithRequest(messages) => returned = messages

\* two unanswered requests at the end of the argument were removed
C23_Witness ==
    /\ obs.call.fn = "_sanitize_loaded_messages"
    /\ ~obs.call.again
    /\ Len(obs.call.messages) = Len(obs.call.returned) + 2
    /\ obs.call.returned # << >>

\* C24: _sanitize_loaded_messages(_sanitize_loaded_messages(x)) equals
\* _sanitize_loaded_messages(x)
C24_SanitizeIdempotent ==
    obs.call.fn = "_sanitize_loaded_messages" /\ obs.call.again =>
        obs.call.returned = obs.call.messages

\* the second call was made on the result of a call that had removed messages
C24_Witness ==
    /\ obs.call.fn = "_sanitize_loaded_messages"
    /\ obs.call.again
    /\ obs.call.returned = obs.call.messages
    /\ obs.call.messages # << >>
    /\ Len(obs.call.first) > Len(obs.call.messages)

\* the summary message that names n earlier messages
IsSummaryOf(m, n, summary_content) ==
    /\ DOMAIN m = {"role", "content"}
    /\ m.role = "user"
    /\ m.content = <<"[Conversation summary of ">> \o ToStr(n)
                       \o <<" earlier messages]\n\n">>
                       \o (IF summary_content \in {NoneVal, EmptyStr}
                           THEN <<"(empty summary)">> ELSE summary_content)

\* C25: when estimate >= threshold and the old part is not empty, compact returns
\* one user-role summary message that names N earlier messages, N being the
\* number of messages of the old part, followed by the other messages of its
\* argument, unchanged and in order; below the threshold it returns its argument
\* and makes no LLM call
C25_CompactKeepsRecentTail ==
    obs.call.fn = "compact" =>
        LET messages == obs.call.messages
            returned == obs.call.returned
        IN  /\ estimate_tokens(messages) < obs.call.threshold =>
                  returned = messages /\ ~obs.call.llm_called
            /\ estimate_tokens(messages) >= obs.call.threshold
                  /\ _split_messages(messages) > 0 =>
                  /\ obs.call.llm_called
                  /\ \E n \in 1..Len(messages) :
                        /\ Len(returned) = 1 + Len(messages) - n
                        /\ IsSummaryOf(returned[1], n, obs.call.summary_content)
                        /\ Tail(returned) = SubSeq(messages, n + 1, Len(messages))

\* compact ran on three messages and kept the last two behind the summary of one
C25_Witness ==
    /\ obs.call.fn = "compact"
    /\ obs.call.llm_called
    /\ Len(obs.call.messages) = 3
    /\ Len(obs.call.returned) = 3
    /\ Tail(obs.call.returned) = Tail(obs.call.messages)
    /\ obs.call.returned # obs.call.messages

\* C26: whenever compact is called on a history with estimate >= threshold, the
\* estimate of what it returns is strictly smaller than the estimate of the history
C26_CompactReducesEstimate ==
    obs.call.fn = "compact"
        /\ estimate_tokens(obs.call.messages) >= obs.call.threshold =>
        estimate_tokens(obs.call.returned) < estimate_tokens(obs.call.messages)

RECURSIVE UpToSpace(_)
UpToSpace(s) ==
    IF s = << >> \/ Head(s) = " " THEN << >> ELSE <<Head(s)>> \o UpToSpace(Tail(s))

\* the leading run of non-space characters of a text
LeadingRun(text) == UpToSpace(LStrip(text))

Registered(agents) == {agents[i] : i \in 1..Len(agents)}

\* C27: resolve returns a prefix agent if and only if the leading run of non-space
\* characters of the text equals that agent's prefix, letter case aside; any other
\* text goes to the default agent
C27_ResolveMatchesLeadingRun ==
    obs.call.fn = "resolve" =>
        LET run == Lower(LeadingRun(obs.call.user_text))
            agent == obs.call.returned.agent
        IN  /\ agent \in Registered(obs.call.agents) \cup {DefaultAgent}
            /\ agent # DefaultAgent => run = Lower(agent.prefix)
            /\ (\E a \in Registered(obs.call.agents) : run = Lower(a.prefix))
                  => agent # DefaultAgent

\* the prefix of the agent is a leading part of the text, letter case and
\* surrounding spaces aside
Matches(agent, user_text) == StartsWith(Lower(Strip(user_text)), Lower(agent.prefix))

\* C28: when the prefixes of several registered agents match the text, resolve
\* returns the one of them that was registered first
C28_FirstRegisteredWins ==
    obs.call.fn = "resolve" =>
        LET agents == obs.call.agents
            matching == {i \in 1..Len(agents) : Matches(agents[i], obs.call.user_text)}
        IN  Cardinality(matching) > 1 =>
                obs.call.returned.agent = agents[CHOOSE i \in matching : \A j \in matching : i <= j]

\* the text after the first n characters of the text without its leading spaces
AfterPrefix(user_text, n) == SubSeq(LStrip(user_text), n + 1, Len(LStrip(user_text)))

PastUser(t) ==
    th[t].pc \in {"llm", "tool", "notify", "persist", "persist_tool", "done", "exc"}

InLog(message, log) == \E i \in 1..Len(log) : log[i] = message

\* the keys the channel handlers work under at the moment
InteractiveKeysInUse ==
    {th[u].lock_key : u \in {v \in ChannelThreads \cup HttpThreads : th[v].mode = "channel"}}

\* the turn of the heartbeat thread t runs with the given user_id and session key,
\* is stored under that key, and no channel handler works under that key or file
HeartbeatRunsAs(t, heartbeat, user_id, session_key) ==
    /\ th[t].channel = "heartbeat"
    /\ th[t].raw_text = heartbeat.prompt
    /\ th[t].user_id = user_id
    /\ th[t].session_key = session_key
    /\ PastUser(t) => InLog(UserMsg(th[t].user_text), load(files, session_key))
    /\ \A key \in InteractiveKeysInUse :
          key # th[t].session_key /\ _path(key) # _path(th[t].session_key)

\* the agent whose prefix the prompt carries, or the default agent
AgentOf(prompt) ==
    IF \E a \in Registered(Agents) : Matches(a, prompt)
    THEN CHOOSE a \in Registered(Agents) : Matches(a, prompt)
    ELSE DefaultAgent

\* C30 as stated: the turn of a heartbeat named n runs through router.run with
\* channel "heartbeat", user_id n and the prompt of the heartbeat, under the
\* session key "<agent.session_prefix>:heartbeat:<n>", which no channel uses
C30_HeartbeatKeyIsPrefixAndName ==
    \A t \in HeartbeatThreads :
        th[t].mode = "heartbeat" =>
            \E heartbeat \in ScheduledHeartbeats :
                HeartbeatRunsAs(t, heartbeat, <<heartbeat.name>>,
                                AgentOf(heartbeat.prompt).session_prefix
                                    \o <<":", "heartbeat", ":", heartbeat.name>>)

\* C30 as the code has it: the turn of a heartbeat named n runs through
\* router.run with channel "heartbeat", user_id "cron:<n>" and the prompt of the
\* heartbeat, under the session key "<agent.session_prefix>:heartbeat:cron:<n>",
\* which no channel uses
C30_HeartbeatKeyHasCron ==
    \A t \in HeartbeatThreads :
        th[t].mode = "heartbeat" =>
            \E heartbeat \in ScheduledHeartbeats :
                HeartbeatRunsAs(t, heartbeat, <<"cron", ":", heartbeat.name>>,
                                AgentOf(heartbeat.prompt).session_prefix
                                    \o <<":", "heartbeat", ":", "cron", ":", heartbeat.name>>)

\* a heartbeat whose prompt went to Scout has stored its turn while a channel
\* handler runs a turn of Scout as well
C30_Witness ==
    \E t \in HeartbeatThreads, u \in ChannelThreads :
        /\ th[t].mode = "heartbeat"
        /\ th[t].pc = "done"
        /\ th[t].session_key =
              <<"agent", ":", "research", ":", "heartbeat", ":", "cron", ":", "hb2">>
        /\ load(files, th[t].session_key) # << >>
        /\ th[u].mode = "channel"
        /\ InTurn(u)
        /\ th[u].session_key =
              <<"agent", ":", "research", ":", "telegram", ":", "7", ":", "default">>

\* the agent a heartbeat names in its agent field: the configured agent whose
\* session namespace is "agent:<name>"
AgentNamed(name) ==
    CHOOSE a \in Registered(Agents) \cup {DefaultAgent} :
        a.session_prefix = <<"agent", ":", name>>

\* C31: the turn of a fired heartbeat runs as the agent named in the agent field
\* of the heartbeat (under that agent's session namespace), whatever the prompt
\* of the heartbeat says
C31_HeartbeatRunsAsNamedAgent ==
    \A t \in HeartbeatThreads :
        th[t].mode = "heartbeat" =>
            \E heartbeat \in ScheduledHeartbeats :
                /\ th[t].raw_text = heartbeat.prompt
                /\ th[t].user_id = <<"cron", ":", heartbeat.name>>
                /\ th[t].session_key =
                      SessionKeyOf(AgentNamed(heartbeat.agent), "heartbeat", th[t].user_id)

\* ======================================================================
\* HeartbeatScheduler: add, start, stop and the loop threads that fire jobs
\* ======================================================================
MaxJobs == 2
MaxFires == 2

\* schedule expressions, written word by word with the spaces between the words
ScheduleExprs ==
    {<<"every", " ", "5", " ", "minutes">>,
     <<" ", "every", " ", "1", " ", "hour">>,
     <<"every", " ", "day", " ", "at", " ", "07:30">>,
     <<"every", " ", "day", " ", "at", " ", "25:99">>,
     <<"every", " ", "monday", " ", "at", " ", "09:00">>,
     <<"every", " ", "monday", " ", "at", " ", "9am">>,
     <<"every", " ", "x", " ", "minutes">>,
     <<"every", " ", "5", " ", "fortnights">>,
     <<"every", " ", "5">>,
     <<"nonsense">>}

HeartbeatNames == {"a", "b", "c"}

\* str.split(): the words of a text
Words(s) == SelectSeq(s, LAMBDA p : p # " ")

\* int(parts[0]) succeeds
IsInt(word) == word \in {"1", "5", "30"}

\* parts[1].rstrip("s") on the unit words of the model
RStripS(word) ==
    CASE word = "seconds" -> "second"
      [] word = "minutes" -> "minute"
      [] word = "hours" -> "hour"
      [] word = "days" -> "day"
      [] word = "weeks" -> "week"
      [] OTHER -> word

unit_map ==
    [second |-> "seconds", minute |-> "minutes", hour |-> "hours", day |-> "days",
     week |-> "weeks"]

weekdays == <<"monday", "tuesday", "wednesday", "thursday", "friday", "saturday", "sunday">>

\* the times Job.at of the schedule library accepts: HH:MM with HH < 24 and MM < 60
IsTime(time_str) == time_str \in {<<"07:30">>, <<"09:00">>}

NoJob == [kind |-> "none"]

\* Job.at(time_str) of the schedule library: the job, or ScheduleValueError
JobAt(unit, time_str) ==
    IF IsTime(time_str)
    THEN [kind |-> "job", interval |-> "1", unit |-> unit, at |-> time_str]
    ELSE [kind |-> "raise"]

\* _parse_schedule: a job, None, or the exception of Job.at, which it does not catch
_parse_schedule(expr) ==
    LET e == Lower(Strip(expr))
        rest == Strip(SubSeq(e, 3, Len(e)))
        parts == Words(rest)
        time_str == Strip(SubSeq(rest, 5, Len(rest)))
    IN  IF ~StartsWith(e, <<"every", " ">>) THEN NoJob
        ELSE IF StartsWith(rest, <<"day", " ", "at", " ">>) THEN JobAt("days", time_str)
        ELSE IF \E i \in 1..Len(weekdays) : StartsWith(rest, <<weekdays[i], " ", "at", " ">>)
             THEN JobAt(Head(rest), time_str)
        ELSE IF Len(parts) >= 2
             THEN IF ~IsInt(parts[1]) THEN NoJob
                  ELSE IF RStripS(parts[2]) \in DOMAIN unit_map
                       THEN [kind |-> "job", interval |-> parts[1],
                             unit |-> unit_map[RStripS(parts[2])], at |-> << >>]
                       ELSE NoJob
        ELSE NoJob

\* HeartbeatScheduler.add: False for None, else the job is scheduled and the
\* heartbeat registered; an exception of _parse_schedule leaves add at once
add(self, name, schedule_expr) ==
    LET job == _parse_schedule(schedule_expr)
    IN  CASE job.kind = "raise" -> [self EXCEPT !.returned = "raised"]
          [] job.kind = "none" -> [self EXCEPT !.returned = "False"]
          [] OTHER -> [self EXCEPT !.jobs = Append(@, name),
                                   !._heartbeats = @ \cup {name},
                                   !.returned = "True"]

\* Thread.is_alive
is_alive(thread) == thread.pc \notin {"unborn", "dead"}

\* HeartbeatScheduler.is_running
is_running(self) == self._thread # 0 /\ is_alive(self.threads[self._thread])

Unborn(self) == {k \in LoopThreads : self.threads[k].pc = "unborn"}

\* a start that spawns a thread whether or not one is running
start_Unguarded(self) ==
    LET k == CHOOSE k \in Unborn(self) : \A j \in Unborn(self) : k <= j
    IN  [self EXCEPT !._stop_event = FALSE, !._thread = k, !.threads[k].pc = "head"]

\* HeartbeatScheduler.start: nothing when the thread is alive; else the event is
\* cleared and a new thread starts at the head of _loop
start(self) ==
    IF self._thread # 0 /\ is_alive(self.threads[self._thread]) THEN self
    ELSE LET k == CHOOSE k \in Unborn(self) : \A j \in Unborn(self) : k <= j
         IN  [self EXCEPT !._stop_event = FALSE, !._thread = k, !.threads[k].pc = "head"]

\* the thread is inside _fire: in run_fn or in on_result
InFire(thread) == thread.pc \in {"run_fn", "on_result"}

\* an exception of the fire path that leaves _fire and ends the thread
_fire_except_Escapes(thread) ==
    [thread EXCEPT !.pc = "dead", !.ended_by = "exception"]

\* the except clause of _fire: the exception is logged and _fire returns to run_pending
_fire_except(thread) ==
    [thread EXCEPT !.pc = "run_pending", !.caught = @ + 1]

\* the caller calls add
Add(name, schedule_expr) ==
    /\ sched.caller = "idle"
    /\ Len(add(sched, name, schedule_expr).jobs) <= MaxJobs
    /\ sched' = [add(sched, name, schedule_expr) EXCEPT !.op = "add", !.expr = schedule_expr]
    /\ UNCHANGED <<queue, files, th, gh, orphaned, abnormal, turnsLeft, llmLeft, obs, perm>>

\* the caller calls start
Start ==
    /\ sched.caller = "idle"
    /\ Unborn(sched) # {}
    /\ sched' = [start(sched) EXCEPT !.op = "start",
                                     !.returned = IF is_running(sched) THEN "running"
                                                  ELSE "spawned"]
    /\ UNCHANGED <<queue, files, th, gh, orphaned, abnormal, turnsLeft, llmLeft, obs, perm>>

\* stop up to the join: the event is set; without a thread stop returns at once
StopSet ==
    /\ sched.caller = "idle"
    /\ sched' = [sched EXCEPT !._stop_event = TRUE,
                              !.caller = IF sched._thread # 0 THEN "join" ELSE "idle",
                              !.op = IF sched._thread # 0 THEN "stopping" ELSE "stop"]
    /\ UNCHANGED <<queue, files, th, gh, orphaned, abnormal, turnsLeft, llmLeft, obs, perm>>

\* join(timeout=5) returns, because the thread ended or because the time is up
\* while the thread is still inside a job; stop forgets the thread and returns
StopJoined ==
    /\ sched.caller = "join"
    /\ \/ ~is_alive(sched.threads[sched._thread])
       \/ InFire(sched.threads[sched._thread])
    /\ sched' = [sched EXCEPT !._thread = 0, !.caller = "idle", !.op = "stop"]
    /\ UNCHANGED <<queue, files, th, gh, orphaned, abnormal, turnsLeft, llmLeft, obs, perm>>

\* _loop: the test of the while statement
LoopCheck(k) ==
    /\ sched.threads[k].pc = "head"
    /\ sched' = [sched EXCEPT !.op = "loop",
                              !.threads[k] =
                                  IF sched._stop_event
                                  THEN [@ EXCEPT !.pc = "dead", !.ended_by = "stop"]
                                  ELSE [@ EXCEPT !.pc = "run_pending"]]
    /\ UNCHANGED <<queue, files, th, gh, orphaned, abnormal, turnsLeft, llmLeft, obs, perm>>

\* run_pending finds job i due and calls _fire, which calls run_fn
Dispatch(k, i) ==
    /\ sched.threads[k].pc = "run_pending"
    /\ i \in 1..Len(sched.jobs)
    /\ sched.fired < MaxFires
    /\ sched' = [sched EXCEPT !.op = "loop", !.fired = @ + 1,
                              !.threads[k] = [@ EXCEPT !.pc = "run_fn",
                                                       !.heartbeat = sched.jobs[i],
                                                       !.outcome = "none",
                                                       !.results = 0]]
    /\ UNCHANGED <<queue, files, th, gh, orphaned, abnormal, turnsLeft, llmLeft, obs, perm>>

\* run_pending has no more due jobs: the thread waits on the event
RunPendingDone(k) ==
    /\ sched.threads[k].pc = "run_pending"
    /\ sched' = [sched EXCEPT !.op = "loop", !.threads[k].pc = "wait"]
    /\ UNCHANGED <<queue, files, th, gh, orphaned, abnormal, turnsLeft, llmLeft, obs, perm>>

\* _stop_event.wait returns: the event is set or check_interval is over
WaitDone(k) ==
    /\ sched.threads[k].pc = "wait"
    /\ sched' = [sched EXCEPT !.op = "loop", !.threads[k].pc = "head"]
    /\ UNCHANGED <<queue, files, th, gh, orphaned, abnormal, turnsLeft, llmLeft, obs, perm>>

\* run_fn returns the response; _fire logs it and calls on_result
RunFnReturn(k) ==
    /\ sched.threads[k].pc = "run_fn"
    /\ sched' = [sched EXCEPT !.op = "loop",
                              !.threads[k] = [@ EXCEPT !.pc = "on_result",
                                                       !.outcome = "returned",
                                                       !.results = @ + 1]]
    /\ UNCHANGED <<queue, files, th, gh, orphaned, abnormal, turnsLeft, llmLeft, obs, perm>>

\* run_fn raises
RunFnRaise(k) ==
    /\ sched.threads[k].pc = "run_fn"
    /\ sched' = [sched EXCEPT !.op = "loop",
                              !.threads[k] = _fire_except([@ EXCEPT !.outcome = "raised"])]
    /\ UNCHANGED <<queue, files, th, gh, orphaned, abnormal, turnsLeft, llmLeft, obs, perm>>

\* on_result returns, and so does _fire
OnResultReturn(k) ==
    /\ sched.threads[k].pc = "on_result"
    /\ sched' = [sched EXCEPT !.op = "loop", !.threads[k].pc = "run_pending"]
    /\ UNCHANGED <<queue, files, th, gh, orphaned, abnormal, turnsLeft, llmLeft, obs, perm>>

\* on_result raises
OnResultRaise(k) ==
    /\ sched.threads[k].pc = "on_result"
    /\ sched' = [sched EXCEPT !.op = "loop", !.threads[k] = _fire_except(@)]
    /\ UNCHANGED <<queue, files, th, gh, orphaned, abnormal, turnsLeft, llmLeft, obs, perm>>

\* the heartbeats of the configuration: one is scheduled, one is rejected
ConfiguredHeartbeats ==
    {[name |-> "a", schedule_expr |-> <<"every", " ", "5", " ", "minutes">>],
     [name |-> "b", schedule_expr |-> <<"nonsense">>]}

SchedulerNext ==
    \/ \E heartbeat \in ConfiguredHeartbeats : Add(heartbeat.name, heartbeat.schedule_expr)
    \/ Start
    \/ StopSet
    \/ StopJoined
    \/ \E k \in LoopThreads : LoopCheck(k)
    \/ \E k \in LoopThreads, i \in 1..MaxJobs : Dispatch(k, i)
    \/ \E k \in LoopThreads : RunPendingDone(k)
    \/ \E k \in LoopThreads : WaitDone(k)
    \/ \E k \in LoopThreads : RunFnReturn(k)
    \/ \E k \in LoopThreads : RunFnRaise(k)
    \/ \E k \in LoopThreads : OnResultReturn(k)
    \/ \E k \in LoopThreads : OnResultRaise(k)

SchedulerSpec == Init /\ [][SchedulerNext]_vars

\* registration alone, with every expression of the model
AddNext ==
    \E name \in HeartbeatNames, schedule_expr \in ScheduleExprs : Add(name, schedule_expr)

AddSpec == Init /\ [][AddNext]_vars

\* ---------------------------------------------------------------- C32..C34, C38
Alive == {k \in LoopThreads : is_alive(sched.threads[k])}

\* C32: an exception of run_fn or of on_result is caught inside _fire: it never
\* ends the scheduler thread, which ends only because stop set the event and goes
\* on with run_pending after the exception; on_result has been called exactly once
\* after a run_fn that returned and not at all after a run_fn that raised
C32_FireCatchesExceptions ==
    \A k \in LoopThreads :
        LET thread == sched.threads[k]
        IN  /\ thread.ended_by # "exception"
            /\ thread.pc = "dead" => thread.ended_by = "stop"
            /\ thread.caught > 0 => thread.pc # "unborn"
            /\ thread.outcome = "returned" => thread.results = 1
            /\ thread.outcome = "raised" => thread.results = 0 /\ thread.pc # "on_result"
            /\ thread.pc = "on_result" => thread.outcome = "returned"

\* a scheduler thread that caught an exception of the fire path of its first job
\* is inside run_fn again for a later job
C32_Witness ==
    \E k \in LoopThreads :
        /\ sched.threads[k].caught = 1
        /\ sched.threads[k].pc = "run_fn"
        /\ sched.fired = 2

\* the cadence grammar: "every <N> <unit>[s]", "every day at HH:MM" and
\* "every <weekday> at HH:MM"
InGrammar(schedule_expr) ==
    LET w == Words(schedule_expr)
    IN  /\ Len(w) >= 1
        /\ w[1] = "every"
        /\ \/ /\ Len(w) = 3
              /\ w[2] \in {"1", "5", "30"}
              /\ w[3] \in {"second", "seconds", "minute", "minutes", "hour", "hours",
                           "day", "days", "week", "weeks"}
           \/ /\ Len(w) = 4
              /\ w[2] \in {"day", "monday", "tuesday", "wednesday", "thursday", "friday",
                           "saturday", "sunday"}
              /\ w[3] = "at"
              /\ w[4] \in {"07:30", "09:00"}

\* C33: add with an expression outside the cadence grammar returns False without
\* raising, schedules no job and leaves the registered heartbeats unchanged
C33_AddRejectsWithoutRaising ==
    [][(sched'.op = "add" /\ ~InGrammar(sched'.expr)) =>
          /\ sched'.returned = "False"
          /\ sched'.jobs = sched.jobs
          /\ sched'._heartbeats = sched._heartbeats]_vars

\* C34: start while the scheduler is running (the thread it holds is alive) spawns
\* no thread and leaves the fields of the scheduler as they were; once stop has
\* returned, is_running is False
C34_StartIdempotent ==
    [][/\ (sched'.op = "start" /\ sched'.returned = "running") =>
              /\ sched'.threads = sched.threads
              /\ sched'._thread = sched._thread
              /\ sched'._stop_event = sched._stop_event
              /\ sched'.jobs = sched.jobs
              /\ sched'._heartbeats = sched._heartbeats
       /\ sched'.op = "stop" => (sched'._thread = 0 \/ sched'.threads[sched'._thread].pc
                                                         \in {"unborn", "dead"})]_vars

\* start has just been called while the thread of the scheduler was inside a job,
\* and that thread is still the only one
C34_Witness ==
    /\ sched.op = "start"
    /\ sched.returned = "running"
    /\ sched._thread # 0
    /\ sched.threads[sched._thread].pc = "run_fn"
    /\ Cardinality(Alive) = 1

\* C38: at most one loop thread is alive at any time, so no heartbeat is inside
\* _fire in two threads at once
C38_OneLoopThread ==
    /\ Cardinality(Alive) <= 1
    /\ \A j, k \in LoopThreads :
          (j # k /\ InFire(sched.threads[j]) /\ InFire(sched.threads[k]))
              => sched.threads[j].heartbeat # sched.threads[k].heartbeat

\* ======================================================================
\* PermissionManager and the shell tool
\* ======================================================================
MaxAsks == 3

\* commands, word by word: ls is in the safe set, rm and curl are not
Commands == {<<"ls", " ", "-l">>, <<"rm", " ", "x">>, <<"curl", " ", "u">>}

DEFAULT_SAFE_COMMANDS ==
    {"ls", "cat", "head", "tail", "wc", "date", "whoami", "echo", "pwd", "which", "git",
     "python", "python3", "node", "npm", "npx", "uv", "pip", "find", "grep", "sort",
     "uniq", "tr", "cut", "env"}

\* x in list
Contains(list, x) == \E i \in 1..Len(list) : list[i] = x

\* _load_approvals: the dict of the file, or two empty lists when there is no file
_load_approvals(file) ==
    IF file.exists THEN [allowed |-> file.allowed, denied |-> file.denied]
    ELSE [allowed |-> << >>, denied |-> << >>]

\* PermissionManager.check: the denied list is not looked at
check(file, command) ==
    LET base_cmd == IF Strip(command) # << >> THEN Words(Strip(command))[1] ELSE ""
    IN  IF base_cmd \in DEFAULT_SAFE_COMMANDS THEN "safe"
        ELSE IF Contains(_load_approvals(file).allowed, command) THEN "approved"
        ELSE "needs_approval"

\* _save_approval: the command is appended to the list of the decision unless that
\* list has it, and the file is written
_save_approval(file, command, approved) ==
    LET approvals == _load_approvals(file)
    IN  IF approved
        THEN [exists |-> TRUE,
              allowed |-> IF Contains(approvals.allowed, command) THEN approvals.allowed
                          ELSE Append(approvals.allowed, command),
              denied |-> approvals.denied]
        ELSE [exists |-> TRUE,
              allowed |-> approvals.allowed,
              denied |-> IF Contains(approvals.denied, command) THEN approvals.denied
                         ELSE Append(approvals.denied, command)]

\* request_approval: the callback answers, the decision is saved and returned
request_approval(self, command, answer) ==
    [self EXCEPT !.file = _save_approval(self.file, command, answer),
                 !.asked = Append(@, command),
                 !.decided = @ \cup {command},
                 !.returned = IF answer THEN "True" ELSE "False"]

\* a caller asks for the approval of a command
RequestApproval(command, answer) ==
    /\ Len(perm.asked) < MaxAsks
    /\ perm' = [request_approval(perm, command, answer) EXCEPT
                    !.op = "request_approval", !.command = command]
    /\ UNCHANGED <<queue, files, th, gh, orphaned, abnormal, turnsLeft, llmLeft, obs, sched>>

\* run_command of the shell tool: check, then the approval when it is needed, then
\* the command runs unless it was denied
RunCommand(command, answer) ==
    /\ Len(perm.asked) < MaxAsks
    /\ perm' = IF check(perm.file, command) = "needs_approval"
               THEN [request_approval(perm, command, answer) EXCEPT
                        !.op = "run_command", !.command = command,
                        !.returned = IF answer THEN "ran" ELSE "Permission denied"]
               ELSE [perm EXCEPT !.op = "run_command", !.command = command,
                                 !.returned = "ran"]
    /\ UNCHANGED <<queue, files, th, gh, orphaned, abnormal, turnsLeft, llmLeft, obs, sched>>

PermissionNext ==
    \/ \E command \in Commands, answer \in BOOLEAN : RequestApproval(command, answer)
    \/ \E command \in Commands, answer \in BOOLEAN : RunCommand(command, answer)

PermissionSpec == Init /\ [][PermissionNext]_vars

\* ---------------------------------------------------------------- C35, C40
\* C35: once request_approval has recorded a decision for a command, allow or
\* deny, running the same command through the shell tool does not call the
\* approval callback again
C35_NeverAskedTwice ==
    [][(perm'.op = "run_command" /\ perm'.command \in perm.decided) =>
          perm'.asked = perm.asked]_vars

\* the commands a list holds more than once
Repeated(list) == {list[i] : i \in {j \in 1..Len(list) : \E k \in 1..(j - 1) : list[k] = list[j]}}

\* C40: no command is in the allowed list and in the denied list of the approvals
\* file, and neither list holds a command twice
C40_ListsDisjointAndDistinct ==
    /\ \A command \in Commands :
          ~(Contains(perm.file.allowed, command) /\ Contains(perm.file.denied, command))
    /\ Repeated(perm.file.allowed) = {}
    /\ Repeated(perm.file.denied) = {}

\* ---------------------------------------------------------------- C36
\* the split index of the rule: the first index from the midpoint on that holds a
\* user message; else the nearest one below the midpoint, down to index low; else
\* the midpoint
SplitIndex(messages, low) ==
    LET n == Len(messages)
        mid == n \div 2
        after == {i \in mid..(n - 1) : messages[i + 1].role = "user"}
        before == {i \in low..mid : i < n /\ messages[i + 1].role = "user"}
    IN  IF after # {} THEN CHOOSE i \in after : \A j \in after : i <= j
        ELSE IF before # {} THEN CHOOSE i \in before : \A j \in before : i >= j
        ELSE mid

\* compact over the threshold split the messages at the given index: with an empty
\* old part it returned them unchanged without the LLM, else it called the LLM and
\* returned the summary message followed by the messages from the index on
CompactSplitAt(split) ==
    LET messages == obs.call.messages
        returned == obs.call.returned
    IN  /\ obs.call.split = split
        /\ split = 0 => returned = messages /\ ~obs.call.llm_called
        /\ split > 0 =>
              /\ obs.call.llm_called
              /\ Len(returned) = 1 + Len(messages) - split
              /\ SubSeq(returned, 2, Len(returned)) = SubSeq(messages, split + 1, Len(messages))

EveryToolRequested(log) ==
    \A i \in 1..Len(log) :
        log[i].role = "tool" =>
            \E j \in 1..(i - 1) :
                /\ IsOrphanCandidate(log[j])
                /\ \E c \in 1..Len(log[j].tool_calls) :
                      log[j].tool_calls[c].id = log[i].tool_call_id
                /\ \A m \in (j + 1)..(i - 1) : log[m].role = "tool"

\* C37: when compaction has summarised the old part of a history that the turn
\* loop stored, the recent part does not begin with a tool message, and the log
\* written back has no tool message without the assistant message that requested it
C37_RecentNeverStartsWithTool ==
    \A t \in DirectThreads :
        (gh[t].overwrote /\ gh[t].summary_calls > 0 /\ EveryToolRequested(gh[t].pre)) =>
            /\ Len(gh[t].saved) >= 2 => gh[t].saved[2].role # "tool"
            /\ EveryToolRequested(gh[t].saved)

\* ---------------------------------------------------------------- C39
\* C39: when the summarisation call of the compaction at the start of a turn
\* raises, the turn ends with that exception, which reaches the caller, and the
\* stored log stays exactly what it was before the turn: nothing is written back
\* and the user message of the turn is not appended
C39_CompactRaiseLeavesLog ==
    [][\A t \in DirectThreads :
          /\ (th[t].pc = "compact" /\ th'[t].pc = "exc") =>
                /\ th'[t].raised = "compact"
                /\ files' = files
                /\ ~gh'[t].overwrote
          /\ (th[t].pc = "exc" /\ th[t].raised = "compact") =>
                /\ load(files, th[t].session_key) = gh[t].pre
                /\ ~gh[t].overwrote
                /\ files' = files
                /\ th'[t].pc = "idle" => abnormal']_vars

\* the summarisation call has raised in a turn that found a log of four messages
C39_Witness ==
    \E t \in DirectThreads :
        /\ th[t].pc = "exc"
        /\ th[t].raised = "compact"
        /\ gh[t].summary_calls = 1
        /\ Len(gh[t].pre) = 4
        /\ load(files, th[t].session_key) = gh[t].pre

====
